---- MODULE Spec2Model ----
(***************************************************************************)
(* Battle-log aggregation of the CR-Data dashboard: the deck aggregator of *)
(* PlayerUsageStats, the opponent aggregator of PlayerMatchupStats, the    *)
(* win/loss summary of BattleLogAnalytics and getArchetype.                *)
(*                                                                         *)
(* Each aggregator is a forEach/reduce over the battle list.  A state of   *)
(* the model is the aggregation state after the loops have consumed a      *)
(* prefix of the list; one step feeds the next battle to every loop.       *)
(*                                                                         *)
(* Optional JavaScript fields are sequences: <<>> is undefined, <<v>> is   *)
(* the value v.  A joined key (names.join(',')) is kept as the sequence of *)
(* its names: join is one-to-one on comma-free names.                      *)
(***************************************************************************)
EXTENDS Integers, Sequences, FiniteSets, TLC

VARIABLES
    cards,       \* canonicalization run: the self-side card array as reported
    shuffled,    \* canonicalization run: a permutation of cards
    swaps,       \* canonicalization run: transpositions applied so far
    deckKey,     \* canonicalization run: <<>> or <<key of shuffled>>
    variantKey,  \* canonicalization run: <<>> or <<variant key of shuffled>>
    archCards,   \* classifier run: the card array given to getArchetype
    archetype,   \* classifier run: <<>> or <<label returned>>
    battles,     \* the battles prop: <<>> (absent) or <<the list consumed so far>>
    usage,       \* PlayerUsageStats: state of its loops over the list
    matchup,     \* PlayerMatchupStats: state of its loop over the list
    summary,     \* BattleLogAnalytics: state of its reduce over the list
    sample,      \* significance run: <<>> or <<[wins, total] of a matchup>>
    row,         \* significance run: <<>> or <<the matrix row computed>>
    specificData, \* ArchetypeMatchupHeatmap: the specificData prop
    genericData, \* ArchetypeMatchupHeatmap: the genericData prop
    viewMode,    \* ArchetypeMatchupHeatmap: <<>> (not mounted) or <<the viewMode state>>
    clicks,      \* ArchetypeMatchupHeatmap: the view buttons clicked so far
    rendered     \* ArchetypeMatchupHeatmap: <<>> or <<what the last render plotted>>

vars == <<cards, shuffled, swaps, deckKey, variantKey, archCards, archetype,
          battles, usage, matchup, summary,
          sample, row, specificData, genericData, viewMode, clicks, rendered>>

canonVars == <<cards, shuffled, swaps, deckKey, variantKey>>
archVars == <<archCards, archetype>>
sigVars == <<sample, row>>
heatVars == <<specificData, genericData, viewMode, clicks, rendered>>

None == <<>>
Some(v) == <<v>>
IsSome(o) == o # <<>>
Get(o) == o[1]

Range(s) == {s[i] : i \in DOMAIN s}

IdleCanon ==
    cards = <<>> /\ shuffled = <<>> /\ swaps = 0 /\ deckKey = None /\ variantKey = None
IdleArch == archCards = <<>> /\ archetype = None
IdleSig == sample = None /\ row = None
IdleHeat ==
    /\ specificData = <<>> /\ genericData = <<>>
    /\ viewMode = None /\ clicks = <<>> /\ rendered = None

(***************************************************************************)
(* Card names of the modelled battle log, in localeCompare order (which    *)
(* for these names is also the code-unit order of the default sort).       *)
(***************************************************************************)
CardNames ==
    <<"Archers", "Balloon", "Giant", "Hog Rider", "Knight", "Miner",
      "Musketeer", "Skeletons", "X-Bow", "Zap">>

NameRank(n) == CHOOSE i \in DOMAIN CardNames : CardNames[i] = n

\* a.name.localeCompare(b.name) < 0
NameBefore(a, b) == NameRank(a) < NameRank(b)

\* iconUrls.medium values; includes('evo') / includes('hero') by table.
IncludesEvo(url) == url \in {"knight-evo.png"}
IncludesHero(url) == url \in {"knight-hero.png"}

MkCard(n, lvl, url) ==
    [name |-> n, evolutionLevel |-> lvl,
     iconUrls |-> [medium |-> url, evolutionMedium |-> None, heroMedium |-> None]]

Card(n) == MkCard(n, None, "card.png")

(***************************************************************************)
(* Array helpers.                                                          *)
(***************************************************************************)
\* Array.prototype.slice(0, n)
Slice(s, n) == SubSeq(s, 1, IF Len(s) < n THEN Len(s) ELSE n)

\* the array in the opposite order
Reversed(s) == [k \in DOMAIN s |-> s[Len(s) + 1 - k]]

CardBefore(a, b) == NameBefore(a.name, b.name)

\* Array.prototype.sort((a, b) => a.name.localeCompare(b.name)): a stable
\* sort, here by insertion from the left.
RECURSIVE InsertCard(_, _)
InsertCard(s, x) ==
    IF s = <<>> THEN <<x>>
    ELSE IF CardBefore(x, s[Len(s)])
         THEN Append(InsertCard(SubSeq(s, 1, Len(s) - 1), x), s[Len(s)])
         ELSE Append(s, x)

RECURSIVE SortCards(_)
SortCards(s) ==
    IF s = <<>> THEN <<>>
    ELSE InsertCard(SortCards(SubSeq(s, 1, Len(s) - 1)), s[Len(s)])

\* Array.prototype.sort() of strings (code-unit order), stable.
RECURSIVE InsertName(_, _)
InsertName(s, x) ==
    IF s = <<>> THEN <<x>>
    ELSE IF NameBefore(x, s[Len(s)])
         THEN Append(InsertName(SubSeq(s, 1, Len(s) - 1), x), s[Len(s)])
         ELSE Append(s, x)

RECURSIVE SortNames(_)
SortNames(s) ==
    IF s = <<>> THEN <<>>
    ELSE InsertName(SortNames(SubSeq(s, 1, Len(s) - 1)), s[Len(s)])

\* uniqueCardsMap.set(c.name, c): a Map keeps the position of the first
\* insertion of a key and the value of the last.
MapSet(m, c) ==
    IF \E i \in DOMAIN m : m[i].name = c.name
    THEN [i \in DOMAIN m |-> IF m[i].name = c.name THEN c ELSE m[i]]
    ELSE Append(m, c)

RECURSIVE UniqueCards(_)
UniqueCards(cs) ==
    IF cs = <<>> THEN <<>>
    ELSE MapSet(UniqueCards(SubSeq(cs, 1, Len(cs) - 1)), cs[Len(cs)])

MaxDeckCards == 8

\* sortedCards.length > 8 ? sortedCards.slice(0, 8) : sortedCards
TruncateDeckNoSlice(sorted) == sorted
TruncateDeckLast(sorted) ==
    IF Len(sorted) > MaxDeckCards
    THEN SubSeq(sorted, Len(sorted) - MaxDeckCards + 1, Len(sorted))
    ELSE sorted
TruncateDeck(sorted) ==
    IF Len(sorted) > MaxDeckCards THEN Slice(sorted, MaxDeckCards) ELSE sorted

\* Array.from(uniqueCardsMap.values()).sort(localeCompare), then the slice.
SortDeckUnsorted(unique) == unique
SortDeck(unique) == SortCards(unique)

SortedCards(cs) == TruncateDeck(SortDeck(UniqueCards(cs)))

Names(cs) == [i \in DOMAIN cs |-> cs[i].name]

\* sortedCards.map(c => c.name).join(',')
DeckKey(cs) == Names(SortedCards(cs))

(***************************************************************************)
(* getArchetype and its table, in the order of the object literal.         *)
(***************************************************************************)
WIN_CONDITIONS ==
    << [archetype |-> "Beatdown",
        conditions |-> <<"Golem", "Lava Hound", "Giant", "Electro Giant",
                         "Goblin Giant", "Royal Giant", "Elixir Golem">>],
       [archetype |-> "Siege", conditions |-> <<"X-Bow", "Mortar">>],
       [archetype |-> "Control",
        conditions |-> <<"Miner", "Graveyard", "Goblin Barrel",
                         "Wall Breakers", "Skeleton Barrel">>],
       [archetype |-> "Cycle",
        conditions |-> <<"Hog Rider", "Royal Hogs", "Ram Rider", "Battle Ram">>],
       [archetype |-> "Bridge Spam",
        conditions |-> <<"P.E.K.K.A", "Mega Knight", "Elite Barbarians",
                         "Royal Recruits">>],
       [archetype |-> "Air", conditions |-> <<"Balloon">>],
       [archetype |-> "Three Musketeers", conditions |-> <<"Three Musketeers">>] >>

\* cardNames.includes(wc)
Includes(s, x) == \E i \in DOMAIN s : s[i] = x

\* conditions.some(wc => cardNames.includes(wc))
SomeCondition(conditions, cardNames) ==
    \E j \in DOMAIN conditions : Includes(cardNames, conditions[j])

\* for (const [archetype, conditions] of Object.entries(WIN_CONDITIONS))
RECURSIVE ArchetypeFrom(_, _)
ArchetypeFrom(k, cardNames) ==
    IF k > Len(WIN_CONDITIONS) THEN "Unknown"
    ELSE IF SomeCondition(WIN_CONDITIONS[k].conditions, cardNames)
         THEN WIN_CONDITIONS[k].archetype
         ELSE ArchetypeFrom(k + 1, cardNames)

RECURSIVE ArchetypeLastFrom(_, _)
ArchetypeLastFrom(k, cardNames) ==
    IF k < 1 THEN "Unknown"
    ELSE IF SomeCondition(WIN_CONDITIONS[k].conditions, cardNames)
         THEN WIN_CONDITIONS[k].archetype
         ELSE ArchetypeLastFrom(k - 1, cardNames)

getArchetypeLastMatch(cs) == ArchetypeLastFrom(Len(WIN_CONDITIONS), Names(cs))
getArchetype(cs) == ArchetypeFrom(1, Names(cs))

(***************************************************************************)
(* Battles.  A side is an entry of battle.team or battle.opponent.         *)
(***************************************************************************)
PlayerTag == "#P"

Side(tag, crowns, cs, trophies, support) ==
    [tag |-> tag, crowns |-> crowns, cards |-> cs,
     startingTrophies |-> trophies, supportCards |-> support,
     trophyChange |-> None]

\* a side that reports the trophies the battle won or cost it
WithTrophyChange(side, change) == [side EXCEPT !.trophyChange = Some(change)]

Battle(type, mode, team, opponent) ==
    [type |-> type, gameMode |-> mode, team |-> team, opponent |-> opponent]

\* battle.team.find(t => t.tag === playerTag) || battle.team[0]
FindPlayer(team) ==
    IF \E i \in DOMAIN team : team[i].tag = PlayerTag
    THEN Some(team[CHOOSE i \in DOMAIN team :
                     /\ team[i].tag = PlayerTag
                     /\ \A j \in DOMAIN team : team[j].tag = PlayerTag => i <= j])
    ELSE IF team = <<>> THEN None ELSE Some(team[1])

\* battle.opponent[0]
FirstOf(sides) == IF sides = <<>> THEN None ELSE Some(sides[1])

\* b.type === 'PvP' || b.type === 'pathOfLegend'
IsValidTypeAny(b) == TRUE
IsValidType(b) == b.type = "PvP" \/ b.type = "pathOfLegend"

\* playerCrowns > opponentCrowns
IsWinOrDraw(selfCrowns, oppCrowns) == selfCrowns >= oppCrowns
IsWin(selfCrowns, oppCrowns) == selfCrowns > oppCrowns

IndexOf(s, Test(_)) ==
    IF \E i \in DOMAIN s : Test(s[i])
    THEN CHOOSE i \in DOMAIN s : Test(s[i]) /\ \A j \in DOMAIN s : Test(s[j]) => i <= j
    ELSE 0

(***************************************************************************)
(* PlayerUsageStats: the body of validBattles.forEach.                     *)
(***************************************************************************)
\* cardCounts[card.name] ... count++, wins++ for one card
CountCard(cc, card, isWin) ==
    LET at == IndexOf(cc, LAMBDA e : e.name = card.name)
        withEntry == IF at = 0
                     THEN Append(cc, [name |-> card.name, count |-> 0, wins |-> 0,
                                      card |-> card])
                     ELSE cc
        k == IF at = 0 THEN Len(withEntry) ELSE at
    IN  [withEntry EXCEPT ![k].count = @ + 1,
                          ![k].wins = IF isWin THEN @ + 1 ELSE @]

\* playerTeam.cards.forEach(card => ...)
RECURSIVE CountCards(_, _, _)
CountCards(cc, cs, isWin) ==
    IF cs = <<>> THEN cc
    ELSE CountCard(CountCards(cc, SubSeq(cs, 1, Len(cs) - 1), isWin), cs[Len(cs)], isWin)

\* level = c.evolutionLevel || 0
LevelOf(c) == IF IsSome(c.evolutionLevel) THEN Get(c.evolutionLevel) ELSE 0

IsEvo(c) ==
    \/ LevelOf(c) = 1
    \/ LevelOf(c) = 0 /\ IncludesEvo(c.iconUrls.medium)

IsHero(c) ==
    \/ LevelOf(c) = 2
    \/ LevelOf(c) = 0 /\ ~IncludesEvo(c.iconUrls.medium) /\ IncludesHero(c.iconUrls.medium)

\* the card returned by the sortedCards.map callback
ProcessedCard(c) ==
    LET afterEvo == IF IsEvo(c) /\ IsSome(c.iconUrls.evolutionMedium)
                    THEN Get(c.iconUrls.evolutionMedium) ELSE c.iconUrls.medium
        iconUrl == IF IsHero(c) /\ IsSome(c.iconUrls.heroMedium)
                   THEN Get(c.iconUrls.heroMedium) ELSE afterEvo
    IN  [c EXCEPT !.iconUrls.medium = iconUrl]

ProcessedCards(sorted) == [i \in DOMAIN sorted |-> ProcessedCard(sorted[i])]

\* variantKeyParts, after .sort(): one token per evolved or hero card, the
\* cards being in name order already
RECURSIVE VariantKeyParts(_)
VariantKeyParts(sorted) ==
    IF sorted = <<>> THEN <<>>
    ELSE LET c == sorted[Len(sorted)]
             before == VariantKeyParts(SubSeq(sorted, 1, Len(sorted) - 1))
         IN  IF IsEvo(c) THEN Append(before, c.name \o ":EVO")
             ELSE IF IsHero(c) THEN Append(before, c.name \o ":HERO")
             ELSE before

\* variantKeyParts.sort().join('|') || 'BASE'
VariantKey(sorted) ==
    IF VariantKeyParts(sorted) = <<>> THEN <<"BASE">> ELSE VariantKeyParts(sorted)

\* deckCounts[deckKey].variants[variantKey] ... count++, wins++
CountVariantNewOnly(vs, vkey, processed, isWin) ==
    IF IndexOf(vs, LAMBDA e : e.key = vkey) # 0 THEN vs
    ELSE Append(vs, [key |-> vkey, count |-> 1, wins |-> IF isWin THEN 1 ELSE 0,
                     cards |-> processed])
CountVariant(vs, vkey, processed, isWin) ==
    LET at == IndexOf(vs, LAMBDA e : e.key = vkey)
        withEntry == IF at = 0
                     THEN Append(vs, [key |-> vkey, count |-> 0, wins |-> 0,
                                      cards |-> processed])
                     ELSE vs
        k == IF at = 0 THEN Len(withEntry) ELSE at
    IN  [withEntry EXCEPT ![k].count = @ + 1,
                          ![k].wins = IF isWin THEN @ + 1 ELSE @]

\* deckCounts[deckKey] ... count++, wins++, then its variant
CountDeckOnce(dc, sorted, isWin) ==
    LET key == Names(sorted)
        at == IndexOf(dc, LAMBDA e : e.key = key)
        withEntry == IF at = 0
                     THEN Append(dc, [key |-> key, count |-> 0, wins |-> 0,
                                      variants |-> <<>>])
                     ELSE dc
        k == IF at = 0 THEN Len(withEntry) ELSE at
    IN  [withEntry EXCEPT ![k].count = IF at = 0 THEN 1 ELSE @,
                          ![k].wins = IF isWin THEN @ + 1 ELSE @,
                          ![k].variants = CountVariant(@, VariantKey(sorted),
                                                       ProcessedCards(sorted), isWin)]

CountDeck(dc, sorted, isWin) ==
    LET key == Names(sorted)
        at == IndexOf(dc, LAMBDA e : e.key = key)
        withEntry == IF at = 0
                     THEN Append(dc, [key |-> key, count |-> 0, wins |-> 0,
                                      variants |-> <<>>])
                     ELSE dc
        k == IF at = 0 THEN Len(withEntry) ELSE at
    IN  [withEntry EXCEPT ![k].count = @ + 1,
                          ![k].wins = IF isWin THEN @ + 1 ELSE @,
                          ![k].variants = CountVariant(@, VariantKey(sorted),
                                                       ProcessedCards(sorted), isWin)]

\* One call of the validBattles.forEach callback.  Reading .crowns of an
\* undefined playerTeam or opponent[0] is a TypeError that ends the loop.
UsageForEach(u, b) ==
    LET playerTeam == FindPlayer(b.team)
        opponent == FirstOf(b.opponent)
    IN  IF playerTeam = None \/ opponent = None
        THEN [u EXCEPT !.status = "threw"]
        ELSE LET isWin == IsWin(Get(playerTeam).crowns, Get(opponent).crowns)
                 cs == Get(playerTeam).cards
             IN  IF cs = None THEN u
                 ELSE LET counted == [u EXCEPT !.cardCounts = CountCards(@, Get(cs), isWin)]
                          sorted == SortedCards(Get(cs))
                      IN  IF sorted = <<>> THEN counted
                          ELSE [counted EXCEPT !.deckCounts = CountDeck(@, sorted, isWin)]

\* towerCounts[card.name] ... count++
RECURSIVE CountTowers(_, _)
CountTowers(tc, cs) ==
    IF cs = <<>> THEN tc
    ELSE LET before == CountTowers(tc, SubSeq(cs, 1, Len(cs) - 1))
             card == cs[Len(cs)]
             at == IndexOf(before, LAMBDA e : e.name = card.name)
             withEntry == IF at = 0
                          THEN Append(before, [name |-> card.name, count |-> 0,
                                               card |-> card])
                          ELSE before
             k == IF at = 0 THEN Len(withEntry) ELSE at
         IN  [withEntry EXCEPT ![k].count = @ + 1]

\* One call of the battles.forEach callback of the tower loop.
TowerForEach(u, b) ==
    LET playerTeam == FindPlayer(b.team)
    IN  IF /\ IsSome(playerTeam)
           /\ IsSome(Get(playerTeam).supportCards)
           /\ Len(Get(Get(playerTeam).supportCards)) > 0
        THEN [u EXCEPT !.totalTowerBattles = @ + 1,
                       !.towerCounts = CountTowers(@, Get(Get(playerTeam).supportCards))]
        ELSE u

UsageInit ==
    [status |-> "ok", valid |-> 0, cardCounts |-> <<>>, deckCounts |-> <<>>,
     towerCounts |-> <<>>, totalTowerBattles |-> 0]

\* The loops of the useMemo callback, one battle further: the filter into
\* validBattles, the main forEach, the tower forEach.  A thrown TypeError
\* leaves no statistics.
UsageStep(u, b) ==
    IF u.status = "threw" THEN u
    ELSE LET main == IF IsValidType(b)
                     THEN UsageForEach([u EXCEPT !.valid = @ + 1], b)
                     ELSE u
         IN  IF main.status = "threw" THEN main ELSE TowerForEach(main, b)

(***************************************************************************)
(* PlayerUsageStats: the selections made after the loops.  A rate is kept  *)
(* as the fraction num/den it is computed from.                            *)
(***************************************************************************)
Frac(n, d) == [num |-> n, den |-> d]

\* a > b for fractions with positive denominators
FracGreater(a, b) == a.num * b.den > b.num * a.den

\* cardData: the elixir table handed in by the parent
CardData ==
    <<[name |-> "Giant", elixir |-> Some(5)],
      [name |-> "Knight", elixir |-> Some(3)],
      [name |-> "Zap", elixir |-> Some(2)],
      [name |-> "Archers", elixir |-> None]>>

\* elixirMap.get(name)
ElixirOf(name) ==
    LET hits == {i \in DOMAIN CardData : CardData[i].name = name /\ IsSome(CardData[i].elixir)}
    IN  IF hits = {} THEN None
        ELSE CardData[CHOOSE i \in hits : \A j \in hits : j <= i].elixir

MinBestCardCount == 5

\* Find Highest Win Rate Card (min 5 battles)
RECURSIVE BestCardScanNoMinimum(_, _)
BestCardScanNoMinimum(cc, k) ==
    IF k = 0
    THEN [bestCard |-> None, bestCardWinRate |-> Frac(0 - 1, 1), bestCardCount |-> 0]
    ELSE LET acc == BestCardScanNoMinimum(cc, k - 1)
             item == cc[k]
         IN  IF FracGreater(Frac(item.wins, item.count), acc.bestCardWinRate)
             THEN [bestCard |-> Some(item.card),
                   bestCardWinRate |-> Frac(item.wins, item.count),
                   bestCardCount |-> item.count]
             ELSE acc

RECURSIVE BestCardScan(_, _)
BestCardScan(cc, k) ==
    IF k = 0
    THEN [bestCard |-> None, bestCardWinRate |-> Frac(0 - 1, 1), bestCardCount |-> 0]
    ELSE LET acc == BestCardScan(cc, k - 1)
             item == cc[k]
         IN  IF /\ item.count >= MinBestCardCount
                /\ FracGreater(Frac(item.wins, item.count), acc.bestCardWinRate)
             THEN [bestCard |-> Some(item.card),
                   bestCardWinRate |-> Frac(item.wins, item.count),
                   bestCardCount |-> item.count]
             ELSE acc

\* Find Most Used Card
RECURSIVE MostUsedCardScanLast(_, _)
MostUsedCardScanLast(cc, k) ==
    IF k = 0 THEN [mostUsedCard |-> None, maxCardCount |-> 0]
    ELSE LET acc == MostUsedCardScanLast(cc, k - 1)
         IN  IF cc[k].count >= acc.maxCardCount
             THEN [mostUsedCard |-> Some(cc[k].card), maxCardCount |-> cc[k].count]
             ELSE acc

RECURSIVE MostUsedCardScan(_, _)
MostUsedCardScan(cc, k) ==
    IF k = 0 THEN [mostUsedCard |-> None, maxCardCount |-> 0]
    ELSE LET acc == MostUsedCardScan(cc, k - 1)
         IN  IF cc[k].count > acc.maxCardCount
             THEN [mostUsedCard |-> Some(cc[k].card), maxCardCount |-> cc[k].count]
             ELSE acc

\* Fallback if no card has 5 battles
FallbackScanNone(cc, k, best) == best @@ [maxCount |-> 0]

RECURSIVE FallbackScan(_, _, _)
FallbackScan(cc, k, best) ==
    IF k = 0 THEN best @@ [maxCount |-> 0]
    ELSE LET acc == FallbackScan(cc, k - 1, best)
             item == cc[k]
         IN  IF item.count > acc.maxCount
             THEN [bestCard |-> Some(item.card),
                   bestCardWinRate |-> Frac(item.wins, item.count),
                   bestCardCount |-> item.count,
                   maxCount |-> item.count]
             ELSE acc

BestCard(cc) ==
    LET best == BestCardScan(cc, Len(cc))
    IN  IF best.bestCard = None
        THEN LET fb == FallbackScan(cc, Len(cc), best)
             IN  [bestCard |-> fb.bestCard, bestCardWinRate |-> fb.bestCardWinRate,
                  bestCardCount |-> fb.bestCardCount]
        ELSE best

\* Find best variant for this deck
RECURSIVE BestVariantScanCountOnly(_, _)
BestVariantScanCountOnly(vs, k) ==
    IF k = 0
    THEN [bestVariant |-> None, maxVariantCount |-> 0 - 1, maxVariantWins |-> 0 - 1]
    ELSE LET acc == BestVariantScanCountOnly(vs, k - 1)
             v == vs[k]
         IN  IF v.count > acc.maxVariantCount
             THEN [bestVariant |-> Some(v.cards), maxVariantCount |-> v.count,
                   maxVariantWins |-> v.wins]
             ELSE acc

RECURSIVE BestVariantScan(_, _)
BestVariantScan(vs, k) ==
    IF k = 0
    THEN [bestVariant |-> None, maxVariantCount |-> 0 - 1, maxVariantWins |-> 0 - 1]
    ELSE LET acc == BestVariantScan(vs, k - 1)
             v == vs[k]
         IN  IF \/ v.count > acc.maxVariantCount
                \/ v.count = acc.maxVariantCount /\ v.wins > acc.maxVariantWins
             THEN [bestVariant |-> Some(v.cards), maxVariantCount |-> v.count,
                   maxVariantWins |-> v.wins]
             ELSE acc

\* Find Most Used Deck
RECURSIVE MostUsedDeckScan(_, _)
MostUsedDeckScan(dc, k) ==
    IF k = 0
    THEN [mostUsedDeck |-> None, maxDeckCount |-> 0, mostUsedDeckWins |-> 0]
    ELSE LET acc == MostUsedDeckScan(dc, k - 1)
             item == dc[k]
         IN  IF \/ item.count > acc.maxDeckCount
                \/ item.count = acc.maxDeckCount /\ item.wins > acc.mostUsedDeckWins
             THEN [mostUsedDeck |->
                       BestVariantScan(item.variants, Len(item.variants)).bestVariant,
                   maxDeckCount |-> item.count,
                   mostUsedDeckWins |-> item.wins]
             ELSE acc

\* Calculate Deck Elixir Avg
RECURSIVE ElixirScanAllCards(_, _)
ElixirScanAllCards(deck, k) ==
    IF k = 0 THEN [totalElixir |-> 0, count |-> 0]
    ELSE LET acc == ElixirScanAllCards(deck, k - 1)
             cost == ElixirOf(deck[k].name)
         IN  [totalElixir |-> acc.totalElixir + (IF IsSome(cost) THEN Get(cost) ELSE 0),
              count |-> acc.count + 1]

RECURSIVE ElixirScan(_, _)
ElixirScan(deck, k) ==
    IF k = 0 THEN [totalElixir |-> 0, count |-> 0]
    ELSE LET acc == ElixirScan(deck, k - 1)
             cost == ElixirOf(deck[k].name)
         IN  IF IsSome(cost)
             THEN [totalElixir |-> acc.totalElixir + Get(cost), count |-> acc.count + 1]
             ELSE acc

DeckElixirAvg(mostUsedDeck) ==
    IF mostUsedDeck = None THEN Frac(0, 1)
    ELSE LET e == ElixirScan(Get(mostUsedDeck), Len(Get(mostUsedDeck)))
         IN  IF e.count > 0 THEN Frac(e.totalElixir, e.count) ELSE Frac(0, 1)

\* Find Most Used Tower Troop
RECURSIVE MostUsedTowerScan(_, _)
MostUsedTowerScan(tc, k) ==
    IF k = 0 THEN [mostUsedTower |-> None, maxTowerCount |-> 0]
    ELSE LET acc == MostUsedTowerScan(tc, k - 1)
         IN  IF tc[k].count > acc.maxTowerCount
             THEN [mostUsedTower |-> Some(tc[k].card), maxTowerCount |-> tc[k].count]
             ELSE acc

\* the object the useMemo callback returns
UsageResult(u, totalBattles) ==
    LET best == BestCard(u.cardCounts)
        used == MostUsedCardScan(u.cardCounts, Len(u.cardCounts))
        deck == MostUsedDeckScan(u.deckCounts, Len(u.deckCounts))
        tower == MostUsedTowerScan(u.towerCounts, Len(u.towerCounts))
    IN  [bestCard |-> best.bestCard,
         bestCardWinRate |-> best.bestCardWinRate,
         bestCardCount |-> best.bestCardCount,
         mostUsedCard |-> used.mostUsedCard,
         mostUsedCardCount |-> used.maxCardCount,
         mostUsedDeck |-> deck.mostUsedDeck,
         mostUsedDeckCount |-> deck.maxDeckCount,
         mostUsedDeckWins |-> deck.mostUsedDeckWins,
         deckElixirAvg |-> DeckElixirAvg(deck.mostUsedDeck),
         mostUsedTower |-> tower.mostUsedTower,
         mostUsedTowerCount |-> tower.maxTowerCount,
         totalTowerBattles |-> u.totalTowerBattles,
         totalBattles |-> totalBattles]

\* if (!battles || battles.length === 0) return null
NoBattlesNever(bs) == FALSE
NoBattles(bs) == bs = None \/ Len(Get(bs)) = 0

\* The value of stats in PlayerUsageStats: <<>> is null, <<r>> the object r.
\* Not defined when the callback threw (UsageThrew).
UsageStats ==
    IF NoBattles(battles) THEN None
    ELSE IF usage.valid = 0 THEN None
    ELSE Some(UsageResult(usage, Len(Get(battles))))

UsageThrew == usage.status = "threw"

\* if (!stats || !stats.bestCard || !stats.mostUsedDeck || !stats.mostUsedCard)
\*     return null
UsageRendered(stats) ==
    /\ IsSome(stats)
    /\ IsSome(Get(stats).bestCard)
    /\ IsSome(Get(stats).mostUsedDeck)
    /\ IsSome(Get(stats).mostUsedCard)

\* stats.mostUsedTowerCount / stats.totalTowerBattles, evaluated only inside
\* {stats.mostUsedTower && (...)}: <<>> when the tower card is not rendered
TowerUsage(stats) ==
    IF UsageRendered(stats) /\ IsSome(Get(stats).mostUsedTower)
    THEN Some(Frac(Get(stats).mostUsedTowerCount, Get(stats).totalTowerBattles))
    ELSE None

(***************************************************************************)
(* PlayerMatchupStats: the body of battles.forEach.                        *)
(***************************************************************************)
\* cardStats[card.name] ... faced++, wins++ for one card
FaceCard(cs, card, isWin) ==
    LET at == IndexOf(cs, LAMBDA e : e.name = card.name)
        withEntry == IF at = 0
                     THEN Append(cs, [name |-> card.name, faced |-> 0, wins |-> 0,
                                      card |-> card])
                     ELSE cs
        k == IF at = 0 THEN Len(withEntry) ELSE at
    IN  [withEntry EXCEPT ![k].faced = @ + 1,
                          ![k].wins = IF isWin THEN @ + 1 ELSE @]

\* opponent.cards.forEach(card => ...)
RECURSIVE FaceCards(_, _, _)
FaceCards(cs, oppCards, isWin) ==
    IF oppCards = <<>> THEN cs
    ELSE FaceCard(FaceCards(cs, SubSeq(oppCards, 1, Len(oppCards) - 1), isWin),
                  oppCards[Len(oppCards)], isWin)

\* opponent.cards.map(c => c.name).sort().join(',')
OpponentDeckKey(oppCards) == SortNames(Names(oppCards))

\* deckStats[deckKey] ... faced++, wins++
FaceDeck(ds, oppCards, isWin) ==
    LET key == OpponentDeckKey(oppCards)
        at == IndexOf(ds, LAMBDA e : e.key = key)
        withEntry == IF at = 0
                     THEN Append(ds, [key |-> key, faced |-> 0, wins |-> 0,
                                      cards |-> oppCards])
                     ELSE ds
        k == IF at = 0 THEN Len(withEntry) ELSE at
    IN  [withEntry EXCEPT ![k].faced = @ + 1,
                          ![k].wins = IF isWin THEN @ + 1 ELSE @]

\* archetypeStats[archetype] ... faced++, wins++
FaceArchetypeKnownOnly(as, oppCards, isWin) ==
    LET label == getArchetype(oppCards)
        at == IndexOf(as, LAMBDA e : e.name = label)
    IN  IF label = "Unknown" THEN as
        ELSE IF at = 0
        THEN Append(as, [name |-> label, faced |-> 1, wins |-> IF isWin THEN 1 ELSE 0])
        ELSE [as EXCEPT ![at].faced = @ + 1,
                        ![at].wins = IF isWin THEN @ + 1 ELSE @]
FaceArchetype(as, oppCards, isWin) ==
    LET label == getArchetype(oppCards)
        at == IndexOf(as, LAMBDA e : e.name = label)
        withEntry == IF at = 0
                     THEN Append(as, [name |-> label, faced |-> 0, wins |-> 0])
                     ELSE as
        k == IF at = 0 THEN Len(withEntry) ELSE at
    IN  [withEntry EXCEPT ![k].faced = @ + 1,
                          ![k].wins = IF isWin THEN @ + 1 ELSE @]

\* truthiness of an optional number
Truthy(o) == IsSome(o) /\ Get(o) # 0

\* 4. Matchup Difficulty (Trophies)
FaceTrophies(m, player, opponent, isWin) ==
    IF Truthy(player.startingTrophies) /\ Truthy(opponent.startingTrophies)
    THEN IF Get(opponent.startingTrophies) > Get(player.startingTrophies)
         THEN [m EXCEPT !.higher.faced = @ + 1,
                        !.higher.wins = IF isWin THEN @ + 1 ELSE @]
         ELSE IF Get(opponent.startingTrophies) < Get(player.startingTrophies)
         THEN [m EXCEPT !.lower.faced = @ + 1,
                        !.lower.wins = IF isWin THEN @ + 1 ELSE @]
         ELSE m
    ELSE m

MatchupInit ==
    [status |-> "ok", totalBattles |-> 0, cardStats |-> <<>>, deckStats |-> <<>>,
     archetypeStats |-> <<>>,
     higher |-> [faced |-> 0, wins |-> 0], lower |-> [faced |-> 0, wins |-> 0]]

\* One call of the battles.forEach callback.  opponent.cards.forEach on an
\* undefined card list is a TypeError that ends the loop.
MatchupForEach(m, b) ==
    IF ~IsValidType(b) THEN m
    ELSE LET player == FindPlayer(b.team)
             opponent == FirstOf(b.opponent)
         IN  IF player = None \/ opponent = None THEN m
             ELSE LET isWin == IsWin(Get(player).crowns, Get(opponent).crowns)
                      oc == Get(opponent).cards
                      counted == [m EXCEPT !.totalBattles = @ + 1]
                  IN  IF oc = None THEN [counted EXCEPT !.status = "threw"]
                      ELSE FaceTrophies(
                               [counted EXCEPT
                                    !.cardStats = FaceCards(@, Get(oc), isWin),
                                    !.deckStats = FaceDeck(@, Get(oc), isWin),
                                    !.archetypeStats = FaceArchetype(@, Get(oc), isWin)],
                               Get(player), Get(opponent), isWin)

MatchupStep(m, b) == IF m.status = "threw" THEN m ELSE MatchupForEach(m, b)

MatchupThrew == matchup.status = "threw"

\* The value of stats in PlayerMatchupStats: <<>> is null.  Not defined when
\* the callback threw.
MatchupStats == IF NoBattles(battles) THEN None ELSE Some(matchup)

(***************************************************************************)
(* PlayerMatchupStats: the card lists derived after the loop.              *)
(***************************************************************************)
MinFaced == 3
MaxListed == 6

\* s.faced >= 3 && (s.wins / s.faced) < 0.5
IsStrugglingAnyFaced(s) == 2 * s.wins < s.faced
IsStruggling(s) == s.faced >= MinFaced /\ 2 * s.wins < s.faced

\* s.faced >= 3 && (s.wins / s.faced) >= 0.5
IsEasyAboveHalf(s) == s.faced >= MinFaced /\ 2 * s.wins > s.faced
IsEasy(s) == s.faced >= MinFaced /\ 2 * s.wins >= s.faced

\* (a.wins / a.faced) - (b.wins / b.faced) < 0
RateBelow(a, b) == a.wins * b.faced < b.wins * a.faced

\* .sort((a, b) => (a.wins / a.faced) - (b.wins / b.faced)): stable
RECURSIVE InsertLowestFirst(_, _)
InsertLowestFirst(s, x) ==
    IF s = <<>> THEN <<x>>
    ELSE IF RateBelow(x, s[Len(s)])
         THEN Append(InsertLowestFirst(SubSeq(s, 1, Len(s) - 1), x), s[Len(s)])
         ELSE Append(s, x)

RECURSIVE SortLowestFirst(_)
SortLowestFirst(s) ==
    IF s = <<>> THEN <<>>
    ELSE InsertLowestFirst(SortLowestFirst(SubSeq(s, 1, Len(s) - 1)), s[Len(s)])

\* .sort((a, b) => (b.wins / b.faced) - (a.wins / a.faced)): stable
RECURSIVE InsertHighestFirst(_, _)
InsertHighestFirst(s, x) ==
    IF s = <<>> THEN <<x>>
    ELSE IF RateBelow(s[Len(s)], x)
         THEN Append(InsertHighestFirst(SubSeq(s, 1, Len(s) - 1), x), s[Len(s)])
         ELSE Append(s, x)

RECURSIVE SortHighestFirst(_)
SortHighestFirst(s) ==
    IF s = <<>> THEN <<>>
    ELSE InsertHighestFirst(SortHighestFirst(SubSeq(s, 1, Len(s) - 1)), s[Len(s)])

\* Struggling Against
StrugglingCardsUncapped(cardsArray) == SortLowestFirst(SelectSeq(cardsArray, IsStruggling))
StrugglingCards(cardsArray) ==
    Slice(SortLowestFirst(SelectSeq(cardsArray, IsStruggling)), MaxListed)

\* Easy Matchups
EasyCards(cardsArray) ==
    Slice(SortHighestFirst(SelectSeq(cardsArray, IsEasy)), MaxListed)

\* a trophy bucket's win rate as rendered: wins/faced, the literal 0 when empty
BucketRateUnguarded(bucket) == Frac(bucket.wins, bucket.faced)
BucketRate(bucket) ==
    IF bucket.faced > 0 THEN Frac(bucket.wins, bucket.faced) ELSE Frac(0, 1)

(***************************************************************************)
(* BattleLogAnalytics: the win/loss reduce over the battles that are not   *)
(* boat battles.                                                           *)
(***************************************************************************)
SummaryInit ==
    [status |-> "ok", wins |-> 0, losses |-> 0, total |-> 0,
     crownsWon |-> 0, crownsLost |-> 0]

\* b.gameMode?.name !== 'ClanWar_BoatBattle'
NotBoatBattleAny(b) == TRUE
NotBoatBattle(b) == b.gameMode # "ClanWar_BoatBattle"

\* b.team[0], the side the reduce reads the player's crowns from
SummarySelf(team) == IF team = <<>> THEN None ELSE Some(team[1])

\* One call of the reduce callback.  Reading .crowns of an undefined team[0]
\* or opponent[0] is a TypeError.
SummaryReduce(acc, b) ==
    LET self == SummarySelf(b.team)
        opponent == FirstOf(b.opponent)
    IN  IF self = None \/ opponent = None THEN [acc EXCEPT !.status = "threw"]
        ELSE LET crownsWon == Get(self).crowns
                 crownsLost == Get(opponent).crowns
             IN  [acc EXCEPT
                      !.total = @ + 1,
                      !.wins = IF IsWin(crownsWon, crownsLost) THEN @ + 1 ELSE @,
                      !.losses = IF ~IsWin(crownsWon, crownsLost) /\ crownsWon < crownsLost
                                 THEN @ + 1 ELSE @,
                      !.crownsWon = @ + crownsWon,
                      !.crownsLost = @ + crownsLost]

SummaryStep(acc, b) ==
    IF acc.status = "threw" THEN acc
    ELSE IF NotBoatBattle(b) THEN SummaryReduce(acc, b) ELSE acc

SummaryThrew == summary.status = "threw"

\* stats.crownsWon / (stats.crownsWon + stats.crownsLost || 1), the width of
\* the crown bar
CrownRatio(stats) ==
    LET sum == stats.crownsWon + stats.crownsLost
    IN  Frac(stats.crownsWon, IF sum = 0 THEN 1 ELSE sum)

\* What BattleLogAnalytics has to render: <<>> is the null it returns for
\* no battles.  Not defined when the reduce threw.
SummaryStats == IF NoBattles(battles) THEN None ELSE Some(summary)

(***************************************************************************)
(* The battle log fed to the three components.                             *)
(***************************************************************************)
MaxBattles == 3

DeckGK == <<Card("Giant"), Card("Knight")>>
DeckKG == <<Card("Knight"), Card("Giant")>>
\* the same name reported twice, the second copy evolved
DeckDup == <<Card("Knight"), MkCard("Knight", Some(1), "card.png"), Card("Zap")>>
\* nine distinct names, in descending order
DeckLong ==
    <<Card("Zap"), Card("X-Bow"), Card("Skeletons"), Card("Musketeer"), Card("Miner"),
      Card("Knight"), Card("Hog Rider"), Card("Giant"), Card("Balloon")>>

OppHM == <<Card("Hog Rider"), Card("Miner")>>
OppA == <<Card("Archers")>>
OppBB == <<Card("Balloon"), Card("Balloon")>>

Tower == <<[name |-> "Tower Princess"]>>

OneVsOne(type, mode, self, opponent) == Battle(type, mode, <<self>>, <<opponent>>)

BattleInputs ==
    { \* a win against a higher-trophy opponent
      OneVsOne("PvP", "Ladder",
               WithTrophyChange(Side(PlayerTag, 2, Some(DeckGK), Some(5000), Some(Tower)), 30),
               Side("#O", 1, Some(OppHM), Some(5100), None)),
      \* a loss with the same deck reported in another order
      OneVsOne("PvP", "Ladder",
               WithTrophyChange(Side(PlayerTag, 0, Some(DeckKG), None, None), -28),
               Side("#O", 1, Some(OppHM), None, None)),
      \* a draw against a lower-trophy opponent
      OneVsOne("PvP", "Ladder",
               WithTrophyChange(Side(PlayerTag, 1, Some(DeckGK), Some(5000), None), 0),
               Side("#O", 1, Some(OppA), Some(4900), None)),
      \* repeated names on both sides
      OneVsOne("PvP", "Ladder",
               Side(PlayerTag, 3, Some(DeckDup), None, None),
               Side("#O", 0, Some(OppBB), None, None)),
      \* more than eight cards on both sides
      OneVsOne("pathOfLegend", "Ranked",
               Side(PlayerTag, 0, Some(DeckLong), None, None),
               Side("#O", 3, Some(DeckLong), None, None)),
      \* no opponent entry
      Battle("PvP", "Ladder", <<Side(PlayerTag, 1, Some(DeckGK), None, None)>>, <<>>),
      \* no team entry
      Battle("PvP", "Ladder", <<>>, <<Side("#O", 1, Some(OppA), None, None)>>),
      \* the self side has no card list
      OneVsOne("PvP", "Ladder",
               Side(PlayerTag, 1, None, None, None),
               Side("#O", 0, Some(OppA), None, None)),
      \* the self side has an empty card list
      OneVsOne("PvP", "Ladder",
               Side(PlayerTag, 1, Some(<<>>), None, None),
               Side("#O", 0, Some(OppA), None, None)),
      \* the opposing side has no card list
      OneVsOne("PvP", "Ladder",
               Side(PlayerTag, 1, Some(DeckGK), None, None),
               Side("#O", 0, None, None, None)),
      \* two against two, the player listed second (crowns are a team score:
      \* both entries of a team report the same number)
      Battle("PvP", "TeamVsTeam",
             <<Side("#M", 3, Some(OppA), None, None),
               Side(PlayerTag, 3, Some(DeckGK), None, None)>>,
             <<Side("#O", 1, Some(OppHM), None, None),
               Side("#O2", 1, Some(OppA), None, None)>>),
      \* the tag is reported without its '#': no team entry matches
      OneVsOne("PvP", "Ladder",
               Side("P", 1, Some(DeckGK), None, None),
               Side("#O", 0, Some(OppA), None, None)),
      \* a friendly battle
      OneVsOne("friendly", "Friendly",
               Side(PlayerTag, 3, Some(DeckGK), None, Some(Tower)),
               Side("#O", 0, Some(OppHM), None, None)),
      \* a boat battle
      OneVsOne("boatBattle", "ClanWar_BoatBattle",
               Side(PlayerTag, 0, Some(DeckGK), None, None),
               Side("#O", 2, Some(OppA), None, None)) }

aggVars == <<battles, usage, matchup, summary>>

(***************************************************************************)
(* What the calls leave of the arrays they are given.  A heap is the       *)
(* sequence of the arrays a computation touches: address 1 is the array it *)
(* was given, filter / map / Array.from / slice put their result at a new  *)
(* address, sort and reverse reorder the array at the address of their     *)
(* receiver.                                                               *)
(***************************************************************************)
\* b.type === 'PvP' && b.gameMode?.name === 'Ladder'
\*     && b.team[0].trophyChange !== undefined
IsTiltBattle(b) ==
    b.type = "PvP" /\ b.gameMode = "Ladder" /\ IsSome(b.team[1].trophyChange)

\* reading .trophyChange of an undefined team[0] is a TypeError
TiltThrows(filtered) ==
    \E i \in DOMAIN filtered :
        /\ filtered[i].type = "PvP" /\ filtered[i].gameMode = "Ladder"
        /\ filtered[i].team = <<>>

\* battles.filter(not boat) at 2, its .filter(tilt) at 3, reversed in place
TrophyHeapNoCopy(bs) ==
    LET h1 == <<bs, SelectSeq(bs, NotBoatBattle)>>
    IN  IF TiltThrows(h1[2]) THEN h1
        ELSE [Append(h1, SelectSeq(h1[2], IsTiltBattle)) EXCEPT ![1] = Reversed(@)]
TrophyHeap(bs) ==
    LET h1 == <<bs, SelectSeq(bs, NotBoatBattle)>>
    IN  IF TiltThrows(h1[2]) THEN h1
        ELSE [Append(h1, SelectSeq(h1[2], IsTiltBattle)) EXCEPT ![3] = Reversed(@)]

\* the map over the reversed array: change and running total per battle
RECURSIVE Cumulate(_)
Cumulate(tilt) ==
    IF tilt = <<>> THEN <<>>
    ELSE LET before == Cumulate(SubSeq(tilt, 1, Len(tilt) - 1))
             change == Get(tilt[Len(tilt)].team[1].trophyChange)
         IN  Append(before,
                    [index |-> Len(tilt),
                     change |-> change,
                     cumulative |-> change + (IF before = <<>> THEN 0
                                              ELSE before[Len(before)].cumulative),
                     result |-> IF change > 0 THEN "Win"
                                ELSE IF change < 0 THEN "Loss" ELSE "Draw"])

\* trophyData: <<>> when the filter threw
TrophyData(bs) ==
    IF Len(TrophyHeap(bs)) < 3 THEN None ELSE Some(Cumulate(TrophyHeap(bs)[3]))

\* playerTeam.cards at 1, Array.from(uniqueCardsMap.values()) at 2 and sorted
\* in place, its slice(0, 8) at 3
DeckHeap(cs) ==
    LET h == <<cs, SortCards(UniqueCards(cs))>>
    IN  IF Len(h[2]) > MaxDeckCards THEN Append(h, Slice(h[2], MaxDeckCards)) ELSE h

\* opponent.cards at 1, opponent.cards.map(c => c.name) at 2 and sorted in
\* place
OpponentKeyHeap(cs) == <<cs, SortNames(Names(cs))>>

\* the index of the team entry FindPlayer returns
PlayerIndex(team) ==
    IF \E i \in DOMAIN team : team[i].tag = PlayerTag
    THEN CHOOSE i \in DOMAIN team :
             /\ team[i].tag = PlayerTag
             /\ \A j \in DOMAIN team : team[j].tag = PlayerTag => i <= j
    ELSE 1

\* The battle object after the forEach callbacks of PlayerUsageStats and
\* PlayerMatchupStats have run on it.
BattleAfter(b) ==
    IF ~IsValidType(b) THEN b
    ELSE [b EXCEPT
            !.team = [i \in DOMAIN @ |->
                        IF i = PlayerIndex(@) /\ IsSome(@[i].cards)
                        THEN [@[i] EXCEPT !.cards = Some(DeckHeap(Get(@))[1])]
                        ELSE @[i]],
            !.opponent = [i \in DOMAIN @ |->
                            IF i = 1 /\ IsSome(@[i].cards)
                            THEN [@[i] EXCEPT !.cards = Some(OpponentKeyHeap(Get(@))[1])]
                            ELSE @[i]]]

\* The battles array after one more battle went through every component.
Consumed(bs, b) == TrophyHeap(Append(bs, BattleAfter(b)))[1]

IdleAgg ==
    /\ battles = None
    /\ usage = UsageInit
    /\ matchup = MatchupInit
    /\ summary = SummaryInit

Init ==
    /\ battles \in {None, Some(<<>>)}
    /\ usage = UsageInit
    /\ matchup = MatchupInit
    /\ summary = SummaryInit
    /\ IdleCanon
    /\ IdleArch
    /\ IdleSig
    /\ IdleHeat

\* The list is one battle longer and every component's loop has consumed it.
ProcessBattle(b) ==
    /\ IsSome(battles)
    /\ Len(Get(battles)) < MaxBattles
    /\ battles' = Some(Consumed(Get(battles), b))
    /\ usage' = UsageStep(usage, b)
    /\ matchup' = MatchupStep(matchup, b)
    /\ summary' = SummaryStep(summary, b)
    /\ UNCHANGED <<canonVars, archVars, sigVars, heatVars>>

Next == \E b \in BattleInputs : ProcessBattle(b)

Spec == Init /\ [][Next]_vars

(***************************************************************************)
(* A longer log of well-formed ladder battles, for the selections that     *)
(* need a card used five times or faced three times.                       *)
(***************************************************************************)
MaxLadderBattles == 6

Deck8 ==
    <<Card("Archers"), Card("Balloon"), Card("Giant"), Card("Hog Rider"),
      Card("Knight"), Card("Miner"), Card("Musketeer"), Card("Skeletons")>>

\* an evolved Miner: the level field set, with an evolution icon
EvoMiner ==
    [MkCard("Miner", Some(1), "miner.png")
        EXCEPT !.iconUrls.evolutionMedium = Some("miner-evolved.png")]

\* a deck none of whose cards has an elixir entry, with and without the
\* evolution
DeckMX == <<Card("Miner"), Card("X-Bow")>>
DeckXMEvo == <<Card("X-Bow"), EvoMiner>>

OppX ==
    <<Card("Archers"), Card("Balloon"), Card("Giant"), Card("Hog Rider"),
      Card("Knight"), Card("Miner"), Card("Musketeer")>>
OppY == <<Card("Musketeer"), Card("Zap")>>

LadderInputs ==
    { \* won 3-1 with the eight-card deck against seven cards
      OneVsOne("PvP", "Ladder",
               Side(PlayerTag, 3, Some(Deck8), None, None),
               Side("#O", 1, Some(OppX), None, None)),
      \* lost 1-2 with the same deck, reported in reverse order
      OneVsOne("PvP", "Ladder",
               Side(PlayerTag, 1, Some(Reversed(Deck8)), None, None),
               Side("#O", 2, Some(OppX), None, None)),
      \* lost with Miner and X-Bow, the Miner evolved
      OneVsOne("PvP", "Ladder",
               Side(PlayerTag, 0, Some(DeckXMEvo), None, None),
               Side("#O", 1, Some(OppY), None, None)),
      \* won, on the path of legend, with Miner and X-Bow, no card evolved
      OneVsOne("pathOfLegend", "Ranked",
               Side(PlayerTag, 2, Some(DeckMX), None, None),
               Side("#O", 0, Some(OppY), None, None)) }

ProcessLadderBattle(b) ==
    /\ IsSome(battles)
    /\ Len(Get(battles)) < MaxLadderBattles
    /\ battles' = Some(Consumed(Get(battles), b))
    /\ usage' = UsageStep(usage, b)
    /\ matchup' = MatchupStep(matchup, b)
    /\ summary' = SummaryStep(summary, b)
    /\ UNCHANGED <<canonVars, archVars, sigVars, heatVars>>

NextLadder == \E b \in LadderInputs : ProcessLadderBattle(b)

SpecLadder == Init /\ [][NextLadder]_vars

(***************************************************************************)
(* A log of ladder battles that differ in the starting trophies the two    *)
(* sides report: none, 0, or one of two positive values.                   *)
(***************************************************************************)
MaxTrophyBattles == 2

TrophyValues == {None, Some(0), Some(4900), Some(5000)}

TrophyInputs ==
    {OneVsOne("PvP", "Ladder",
              Side(PlayerTag, crowns[1], Some(DeckGK), self, None),
              Side("#O", crowns[2], Some(OppHM), opp, None)) :
        crowns \in {<<2, 1>>, <<0, 1>>}, self \in TrophyValues, opp \in TrophyValues}

ProcessTrophyBattle(b) ==
    /\ IsSome(battles)
    /\ Len(Get(battles)) < MaxTrophyBattles
    /\ battles' = Some(Consumed(Get(battles), b))
    /\ usage' = UsageStep(usage, b)
    /\ matchup' = MatchupStep(matchup, b)
    /\ summary' = SummaryStep(summary, b)
    /\ UNCHANGED <<canonVars, archVars, sigVars, heatVars>>

NextTrophies == \E b \in TrophyInputs : ProcessTrophyBattle(b)

SpecTrophies == Init /\ [][NextTrophies]_vars

(***************************************************************************)
(* Canonicalization run: the deck canonicalization of the usage aggregator *)
(* applied to a reported card array and to permutations of it.             *)
(***************************************************************************)
MaxSwaps == 3
SmallDeck == 2

NameSet == Range(CardNames)

RECURSIVE Ascending(_)
Ascending(S) ==
    IF S = {} THEN <<>>
    ELSE LET n == CHOOSE x \in S : \A y \in S : NameRank(y) <= NameRank(x)
         IN  Append(Ascending(S \ {n}), Card(n))

\* Reported name sets: the small ones and those that fill or overflow a deck.
CanonSets ==
    {S \in SUBSET NameSet : Cardinality(S) <= SmallDeck
                            \/ Cardinality(S) >= MaxDeckCards}

\* A reported array: the names once each, or with one name reported a second
\* time (as an evolved copy).
CanonInputs ==
    {Ascending(S) : S \in CanonSets}
    \cup UNION {{Append(Ascending(S), MkCard(n, Some(1), "knight-evo.png")) : n \in S}
                : S \in CanonSets}

SwapAt(s, i) ==
    [k \in DOMAIN s |-> IF k = i THEN s[i + 1] ELSE IF k = i + 1 THEN s[i] ELSE s[k]]




InitCanon ==
    /\ cards \in CanonInputs
    /\ shuffled = cards
    /\ swaps = 0
    /\ deckKey = None
    /\ variantKey = None
    /\ IdleArch
    /\ IdleAgg
    /\ IdleSig
    /\ IdleHeat

Transpose ==
    /\ deckKey = None
    /\ swaps < MaxSwaps
    /\ \E i \in 1..(Len(shuffled) - 1) : shuffled' = SwapAt(shuffled, i)
    /\ swaps' = swaps + 1
    /\ UNCHANGED <<cards, deckKey, variantKey, archVars, aggVars, sigVars, heatVars>>

Reverse ==
    /\ deckKey = None
    /\ swaps < MaxSwaps
    /\ Len(shuffled) > 1
    /\ shuffled' = Reversed(shuffled)
    /\ swaps' = swaps + 1
    /\ UNCHANGED <<cards, deckKey, variantKey, archVars, aggVars, sigVars, heatVars>>

\* The deck key and, unless the callback returns on an empty deck before it,
\* the variant key of the reported array.
Canonicalize ==
    /\ deckKey = None
    /\ deckKey' = Some(DeckKey(shuffled))
    /\ variantKey' = IF SortedCards(shuffled) = <<>> THEN None
                     ELSE Some(VariantKey(SortedCards(shuffled)))
    /\ UNCHANGED <<cards, shuffled, swaps, archVars, aggVars, sigVars, heatVars>>

NextCanon == Transpose \/ Reverse \/ Canonicalize

SpecCanon == InitCanon /\ [][NextCanon]_vars

(***************************************************************************)
(* Variant run: the variant detection applied to card arrays whose cards   *)
(* report every kind of evolution level (absent, 0, 1, 2, 3) with every    *)
(* kind of icon reference.                                                 *)
(***************************************************************************)
MaxVariantCards == 2

VariantLevels == {None, Some(0), Some(1), Some(2), Some(3)}
VariantIcons == {"card.png", "knight-evo.png", "knight-hero.png"}

VariantCards ==
    {MkCard(n, lvl, url) : n \in {"Knight", "Zap"}, lvl \in VariantLevels,
                           url \in VariantIcons}

VariantInputs == UNION {[1..n -> VariantCards] : n \in 0..MaxVariantCards}

InitVariant ==
    /\ cards \in VariantInputs
    /\ shuffled = cards
    /\ swaps = 0
    /\ deckKey = None
    /\ variantKey = None
    /\ IdleArch
    /\ IdleAgg
    /\ IdleSig
    /\ IdleHeat

NextVariant == Canonicalize

SpecVariant == InitVariant /\ [][NextVariant]_vars

(***************************************************************************)
(* Classifier run: getArchetype applied to a card array.                   *)
(***************************************************************************)
MaxArchCards == 2

Triggers(label) ==
    UNION {Range(WIN_CONDITIONS[k].conditions) :
           k \in {j \in DOMAIN WIN_CONDITIONS : WIN_CONDITIONS[j].archetype = label}}

ArchNames ==
    UNION {Range(WIN_CONDITIONS[k].conditions) : k \in DOMAIN WIN_CONDITIONS}
    \cup {"Knight", "Zap"}

ArchInputs ==
    UNION {[1..n -> {[name |-> x] : x \in ArchNames}] : n \in 0..MaxArchCards}

InitArch ==
    /\ archCards \in ArchInputs
    /\ archetype = None
    /\ IdleCanon
    /\ IdleAgg
    /\ IdleSig
    /\ IdleHeat

Classify ==
    /\ archetype = None
    /\ archetype' = Some(getArchetype(archCards))
    /\ UNCHANGED <<archCards, canonVars, aggVars, sigVars, heatVars>>

NextArch == Classify

SpecArch == InitArch /\ [][NextArch]_vars

(***************************************************************************)
(* C1: the DeckKey of a self-side card array is the same for every         *)
(* permutation of the array, duplicates and overflow included.             *)
(***************************************************************************)
C1_OrderIndependent ==
    IsSome(deckKey) => Get(deckKey) = DeckKey(cards)

\* a permuted array that is not in sorted order, with a repeated name or
\* more names than a deck holds, has been canonicalized
C1_Witness ==
    /\ IsSome(deckKey)
    /\ shuffled # cards
    /\ Names(shuffled) # Get(deckKey)
    /\ Len(cards) > MaxDeckCards

(***************************************************************************)
(* C3: when the side reports more than 8 distinct names, the DeckKey is    *)
(* exactly the 8 smallest names in ascending name order.                   *)
(***************************************************************************)
DistinctNames(cs) == Range(Names(cs))

SmallestNames(S, n) ==
    {x \in S : Cardinality({y \in S : NameRank(y) < NameRank(x)}) < n}

IsAscending(key) ==
    \A i \in 1..(Len(key) - 1) : NameRank(key[i]) < NameRank(key[i + 1])

C3_FirstEightSorted ==
    (IsSome(deckKey) /\ Cardinality(DistinctNames(shuffled)) > 8) =>
        /\ Len(Get(deckKey)) = 8
        /\ IsAscending(Get(deckKey))
        /\ Range(Get(deckKey)) = SmallestNames(DistinctNames(shuffled), 8)

\* ten distinct names reported out of order: the two largest are dropped
C3_Witness ==
    /\ IsSome(deckKey)
    /\ Cardinality(DistinctNames(shuffled)) = 10
    /\ ~IsAscending(Names(shuffled))
    /\ Range(Get(deckKey)) # DistinctNames(shuffled)

(***************************************************************************)
(* C5: getArchetype returns the label of the first entry, in the order     *)
(* Beatdown, Siege, Control, Cycle, Bridge Spam, Air, Three Musketeers,    *)
(* that has a trigger among the cards, "Unknown" when none has; the order  *)
(* of the cards does not matter.                                           *)
(***************************************************************************)
ArchetypeOrder ==
    <<"Beatdown", "Siege", "Control", "Cycle", "Bridge Spam", "Air",
      "Three Musketeers">>

Matching(S) == {k \in DOMAIN ArchetypeOrder : Triggers(ArchetypeOrder[k]) \cap S # {}}

FirstMatching(S) ==
    IF Matching(S) = {} THEN "Unknown"
    ELSE ArchetypeOrder[CHOOSE k \in Matching(S) : \A j \in Matching(S) : k <= j]

C5_FirstTableEntry ==
    IsSome(archetype) => Get(archetype) = FirstMatching(DistinctNames(archCards))

\* triggers of two archetypes, the later archetype's card listed first
C5_Witness ==
    /\ IsSome(archetype)
    /\ Cardinality(Matching(DistinctNames(archCards))) = 2
    /\ archCards[1].name \notin Triggers(Get(archetype))

(***************************************************************************)
(* Claims about the aggregators.                                           *)
(***************************************************************************)
RECURSIVE Sum(_)
Sum(s) == IF s = <<>> THEN 0 ELSE Sum(SubSeq(s, 1, Len(s) - 1)) + s[Len(s)]

Last(s) == s[Len(s)]

\* the battle a step has just fed to the loops
Fed == Last(Get(battles'))
Feeding == IsSome(battles') /\ battles' # battles

(***************************************************************************)
(* C2 as stated: every DeckKey used as a bucket key, in deckCounts and in  *)
(* deckStats, has at most 8 card names.                                    *)
(***************************************************************************)
C2_AllKeysAtMostEight ==
    /\ \A i \in DOMAIN usage.deckCounts : Len(usage.deckCounts[i].key) <= 8
    /\ \A i \in DOMAIN matchup.deckStats : Len(matchup.deckStats[i].key) <= 8

(***************************************************************************)
(* C2 amended: every key of the self-side deckCounts has at most 8 card    *)
(* names, without a repeated name; a key of the opposing deckStats has one *)
(* name for every card the opponent reported, repeats included.            *)
(***************************************************************************)
C2_SelfKeysAtMostEight ==
    /\ \A i \in DOMAIN usage.deckCounts :
           /\ Len(usage.deckCounts[i].key) <= 8
           /\ Cardinality(Range(usage.deckCounts[i].key)) = Len(usage.deckCounts[i].key)
    /\ \A i \in DOMAIN matchup.deckStats :
           Len(matchup.deckStats[i].key) = Len(matchup.deckStats[i].cards)

\* the nine-card deck and the deck with a repeated name have both been
\* bucketed on the self side, the nine-card deck on the opposing side
C2_Witness ==
    /\ \E i \in DOMAIN usage.deckCounts : Len(usage.deckCounts[i].key) = 8
    /\ \E i \in DOMAIN usage.deckCounts : usage.deckCounts[i].key = <<"Knight", "Zap">>
    /\ \E i \in DOMAIN matchup.deckStats : Len(matchup.deckStats[i].key) = 9


(***************************************************************************)
(* The self side of a battle as the claims define it: the team entry whose *)
(* tag equals the player tag, the first entry when none matches.           *)
(***************************************************************************)
SelfSideRule(team) ==
    LET matches == {i \in DOMAIN team : team[i].tag = PlayerTag}
    IN  IF matches # {} THEN Some(team[CHOOSE i \in matches : \A j \in matches : i <= j])
        ELSE IF team # <<>> THEN Some(team[1])
        ELSE None

QualifyingType(b) == b.type \in {"PvP", "pathOfLegend"}

CountOf(s, name) ==
    Sum([i \in DOMAIN s |-> IF s[i].name = name THEN s[i].count ELSE 0])
FacedOf(s, name) ==
    Sum([i \in DOMAIN s |-> IF s[i].name = name THEN s[i].faced ELSE 0])
WinsOf(s, name) ==
    Sum([i \in DOMAIN s |-> IF s[i].name = name THEN s[i].wins ELSE 0])

SumCount(s) == Sum([i \in DOMAIN s |-> s[i].count])
SumFaced(s) == Sum([i \in DOMAIN s |-> s[i].faced])
SumWins(s) == Sum([i \in DOMAIN s |-> s[i].wins])

SumVariantCount(dc) == Sum([i \in DOMAIN dc |-> SumCount(dc[i].variants)])
SumVariantWins(dc) == Sum([i \in DOMAIN dc |-> SumWins(dc[i].variants)])

(***************************************************************************)
(* C4: a battle is a win exactly when the self crowns are strictly greater *)
(* than the opponent crowns.  Every aggregator that counts the battle adds *)
(* it to its count/faced/total, adds it to wins only when it is a win and  *)
(* to losses only when the self crowns are smaller; a battle with equal    *)
(* crowns adds to neither.                                                 *)
(***************************************************************************)
C4_Counted ==
    (Feeding /\ Fed.team # <<>> /\ Fed.opponent # <<>>) =>
        LET b == Fed
            self == Get(SelfSideRule(b.team))
            opp == b.opponent[1]
            w == IF self.crowns > opp.crowns THEN 1 ELSE 0
            l == IF self.crowns < opp.crowns THEN 1 ELSE 0
        IN  /\ (summary.status = "ok" /\ b.gameMode # "ClanWar_BoatBattle") =>
                /\ summary'.total = summary.total + 1
                /\ summary'.wins = summary.wins + w
                /\ summary'.losses = summary.losses + l
            /\ (matchup.status = "ok" /\ QualifyingType(b) /\ IsSome(opp.cards)) =>
                /\ matchup'.totalBattles = matchup.totalBattles + 1
                /\ \A i \in DOMAIN matchup'.cardStats :
                       LET n == matchup'.cardStats[i].name
                       IN  /\ matchup'.cardStats[i].wins - WinsOf(matchup.cardStats, n)
                              = w * (matchup'.cardStats[i].faced - FacedOf(matchup.cardStats, n))
                           /\ (\E k \in DOMAIN Get(opp.cards) : Get(opp.cards)[k].name = n)
                              => matchup'.cardStats[i].faced > FacedOf(matchup.cardStats, n)
                /\ SumFaced(matchup'.deckStats) = SumFaced(matchup.deckStats) + 1
                /\ SumWins(matchup'.deckStats) = SumWins(matchup.deckStats) + w
                /\ SumFaced(matchup'.archetypeStats) = SumFaced(matchup.archetypeStats) + 1
                /\ SumWins(matchup'.archetypeStats) = SumWins(matchup.archetypeStats) + w
                /\ matchup'.higher.faced - matchup.higher.faced \in {0, 1}
                /\ matchup'.lower.faced - matchup.lower.faced \in {0, 1}
                /\ matchup'.higher.wins - matchup.higher.wins
                   = w * (matchup'.higher.faced - matchup.higher.faced)
                /\ matchup'.lower.wins - matchup.lower.wins
                   = w * (matchup'.lower.faced - matchup.lower.faced)
            /\ (usage.status = "ok" /\ QualifyingType(b) /\ IsSome(self.cards)) =>
                /\ \A i \in DOMAIN usage'.cardCounts :
                       LET n == usage'.cardCounts[i].name
                       IN  /\ usage'.cardCounts[i].wins - WinsOf(usage.cardCounts, n)
                              = w * (usage'.cardCounts[i].count - CountOf(usage.cardCounts, n))
                           /\ (\E k \in DOMAIN Get(self.cards) : Get(self.cards)[k].name = n)
                              => usage'.cardCounts[i].count > CountOf(usage.cardCounts, n)
                /\ Get(self.cards) # <<>> =>
                       /\ SumCount(usage'.deckCounts) = SumCount(usage.deckCounts) + 1
                       /\ SumWins(usage'.deckCounts) = SumWins(usage.deckCounts) + w
                       /\ SumVariantCount(usage'.deckCounts)
                          = SumVariantCount(usage.deckCounts) + 1
                       /\ SumVariantWins(usage'.deckCounts)
                          = SumVariantWins(usage.deckCounts) + w

C4_WinIffMoreCrowns == [][C4_Counted]_vars

\* a single battle with equal crowns has been counted by every aggregator,
\* its trophy bucket included, and is a win or a loss in none
C4_Witness ==
    /\ IsSome(battles) /\ Len(Get(battles)) = 1
    /\ Get(battles)[1].team # <<>> /\ Get(battles)[1].opponent # <<>>
    /\ Get(battles)[1].team[1].crowns = Get(battles)[1].opponent[1].crowns
    /\ summary.total = 1 /\ summary.wins = 0 /\ summary.losses = 0
    /\ matchup.totalBattles = 1
    /\ SumFaced(matchup.cardStats) = 1 /\ SumWins(matchup.cardStats) = 0
    /\ SumFaced(matchup.deckStats) = 1 /\ SumWins(matchup.deckStats) = 0
    /\ SumFaced(matchup.archetypeStats) = 1 /\ SumWins(matchup.archetypeStats) = 0
    /\ matchup.lower = [faced |-> 1, wins |-> 0]
    /\ SumCount(usage.cardCounts) = 2 /\ SumWins(usage.cardCounts) = 0
    /\ SumCount(usage.deckCounts) = 1 /\ SumWins(usage.deckCounts) = 0
    /\ SumVariantCount(usage.deckCounts) = 1 /\ SumVariantWins(usage.deckCounts) = 0

(***************************************************************************)
(* C6: with an absent or empty battle list every aggregator returns null   *)
(* and none throws.                                                        *)
(***************************************************************************)
C6_NoBattlesNoResult ==
    (battles = <<>> \/ Get(battles) = <<>>) =>
        /\ UsageStats = None /\ ~UsageThrew
        /\ MatchupStats = None /\ ~MatchupThrew
        /\ SummaryStats = None /\ ~SummaryThrew

\* the list is absent
C6_Witness ==
    /\ battles = <<>>
    /\ UsageStats = None /\ MatchupStats = None /\ SummaryStats = None

(***************************************************************************)
(* C7 as stated: a malformed battle (no opponent entry, no self team       *)
(* entry, a side without a card list) is skipped on its own: the           *)
(* aggregation does not fail and its statistics are those of the list      *)
(* without that battle.                                                    *)
(***************************************************************************)
NoEntry(b) == b.team = <<>> \/ b.opponent = <<>>

SelfWithoutCards(b) == ~NoEntry(b) /\ Get(SelfSideRule(b.team)).cards = None
OpponentWithoutCards(b) == ~NoEntry(b) /\ b.opponent[1].cards = None

C7_Skipped ==
    Feeding =>
        /\ (usage.status = "ok" /\ (NoEntry(Fed) \/ SelfWithoutCards(Fed))) =>
               /\ usage'.status = "ok"
               /\ usage'.cardCounts = usage.cardCounts
               /\ usage'.deckCounts = usage.deckCounts
        /\ (matchup.status = "ok" /\ (NoEntry(Fed) \/ OpponentWithoutCards(Fed))) =>
               matchup' = matchup

C7_MalformedBattleSkipped == [][C7_Skipped]_vars

(***************************************************************************)
(* C8 as stated: every rate the aggregators report lies in [0,1]: the      *)
(* bestCardWinRate of the usage stats result, mostUsedDeckWins over        *)
(* mostUsedDeckCount, the usage share of the most used card, and wins over *)
(* faced of every opposing card, deck, archetype and trophy bucket.        *)
(***************************************************************************)
InUnit(f) == f.den > 0 /\ 0 <= f.num /\ f.num <= f.den

C8_RatesInUnitInterval ==
    /\ (IsSome(UsageStats) /\ ~UsageThrew) =>
           LET r == Get(UsageStats)
           IN  /\ InUnit(r.bestCardWinRate)
               /\ r.mostUsedDeckCount > 0 =>
                      InUnit(Frac(r.mostUsedDeckWins, r.mostUsedDeckCount))
               /\ InUnit(Frac(r.mostUsedCardCount, r.totalBattles))
    /\ (IsSome(MatchupStats) /\ ~MatchupThrew) =>
           LET m == Get(MatchupStats)
           IN  /\ \A i \in DOMAIN m.cardStats :
                      InUnit(Frac(m.cardStats[i].wins, m.cardStats[i].faced))
               /\ \A i \in DOMAIN m.deckStats :
                      InUnit(Frac(m.deckStats[i].wins, m.deckStats[i].faced))
               /\ \A i \in DOMAIN m.archetypeStats :
                      InUnit(Frac(m.archetypeStats[i].wins, m.archetypeStats[i].faced))
               /\ InUnit(BucketRate(m.higher))
               /\ InUnit(BucketRate(m.lower))

(***************************************************************************)
(* C9 as stated: the count of every self-side card never exceeds the       *)
(* number of battles the usage aggregation took in, and the faced count of *)
(* every opposing card never exceeds the number of battles the matchup     *)
(* aggregation counted.                                                    *)
(***************************************************************************)
C9_CardCountAtMostBattles ==
    /\ \A i \in DOMAIN usage.cardCounts : usage.cardCounts[i].count <= usage.valid
    /\ \A i \in DOMAIN matchup.cardStats :
           matchup.cardStats[i].faced <= matchup.totalBattles

(***************************************************************************)
(* C10 as stated: in every aggregator the self side of a battle is the     *)
(* team entry whose tag equals the player tag, the first team entry only   *)
(* when none matches, and crowns and cards are taken from that entry.      *)
(***************************************************************************)
C10_SelfSideByTag ==
    IsSome(battles) =>
        \A i \in DOMAIN Get(battles) :
            LET b == Get(battles)[i]
            IN  /\ QualifyingType(b) => FindPlayer(b.team) = SelfSideRule(b.team)
                /\ b.gameMode # "ClanWar_BoatBattle" =>
                       SummarySelf(b.team) = SelfSideRule(b.team)

(***************************************************************************)
(* The statistics PlayerUsageStats computes from a list bs that took its   *)
(* loops to the state u, and the part of them that describes cards and     *)
(* decks.                                                                  *)
(***************************************************************************)
StatsOf(bs, u) ==
    IF NoBattles(bs) \/ u.valid = 0 THEN None
    ELSE Some(UsageResult(u, Len(Get(bs))))

CardDeckView(stats) ==
    IF stats = None THEN None
    ELSE LET r == Get(stats)
         IN  Some([bestCard |-> r.bestCard,
                   bestCardWinRate |-> r.bestCardWinRate,
                   bestCardCount |-> r.bestCardCount,
                   mostUsedCard |-> r.mostUsedCard,
                   mostUsedCardCount |-> r.mostUsedCardCount,
                   mostUsedDeck |-> r.mostUsedDeck,
                   mostUsedDeckCount |-> r.mostUsedDeckCount,
                   mostUsedDeckWins |-> r.mostUsedDeckWins])

(***************************************************************************)
(* C11: a battle whose type is neither PvP nor pathOfLegend contributes    *)
(* nothing to the card, deck, variant and archetype aggregations: with it  *)
(* in the list (at any position: the state it leaves is the state it       *)
(* found) the card counts, the deck and variant buckets, the best and most *)
(* used card, the most used deck and the opposing card, deck and archetype *)
(* statistics are what they are without it.                                *)
(***************************************************************************)
C11_Frame ==
    (Feeding /\ ~QualifyingType(Fed)) =>
        /\ usage'.status = usage.status
        /\ usage'.cardCounts = usage.cardCounts
        /\ usage'.deckCounts = usage.deckCounts
        /\ usage.status = "ok" =>
               CardDeckView(StatsOf(battles', usage')) = CardDeckView(StatsOf(battles, usage))
        /\ matchup'.status = matchup.status
        /\ matchup'.totalBattles = matchup.totalBattles
        /\ matchup'.cardStats = matchup.cardStats
        /\ matchup'.deckStats = matchup.deckStats
        /\ matchup'.archetypeStats = matchup.archetypeStats

C11_OnlyLadderBattlesContribute == [][C11_Frame]_vars

\* a friendly battle with the deck of the ladder battle before it: the tower
\* loop counted both battles, the card and deck buckets only the first
C11_Witness ==
    /\ IsSome(battles) /\ Len(Get(battles)) = 2
    /\ Get(battles)[2].type = "friendly"
    /\ usage.status = "ok"
    /\ usage.totalTowerBattles = 2
    /\ CountOf(usage.cardCounts, "Giant") = 1
    /\ SumCount(usage.deckCounts) = 1
    /\ matchup.totalBattles = 1
    /\ IsSome(UsageStats) /\ Get(UsageStats).totalBattles = 2

(***************************************************************************)
(* The card names the self side reported, in battle order and, within a    *)
(* battle, in the order of its card array: one element for every card      *)
(* entry of every qualifying battle whose self side has a card list.       *)
(***************************************************************************)
SelfNamesOf(b) ==
    IF QualifyingType(b) /\ b.team # <<>> /\ IsSome(Get(SelfSideRule(b.team)).cards)
    THEN Names(Get(Get(SelfSideRule(b.team)).cards))
    ELSE <<>>

RECURSIVE SeenNames(_)
SeenNames(bs) ==
    IF bs = <<>> THEN <<>>
    ELSE SeenNames(SubSeq(bs, 1, Len(bs) - 1)) \o SelfNamesOf(Last(bs))

Occurrences(seen, n) == Cardinality({i \in DOMAIN seen : seen[i] = n})

FirstSeen(seen, n) == CHOOSE i \in DOMAIN seen : seen[i] = n /\ \A j \in 1..(i - 1) : seen[j] # n

(***************************************************************************)
(* C12: the most used card has the maximum count, and among the cards with *)
(* the maximum count it is the one seen first in battle order; the count   *)
(* reported with it is its count.                                          *)
(***************************************************************************)
C12_MostUsedCardFirstSeen ==
    (IsSome(battles) /\ ~UsageThrew /\ SeenNames(Get(battles)) # <<>>) =>
        LET seen == SeenNames(Get(battles))
            r == Get(UsageStats)
            n == Get(r.mostUsedCard).name
        IN  /\ IsSome(UsageStats)
            /\ IsSome(r.mostUsedCard)
            /\ r.mostUsedCardCount = Occurrences(seen, n)
            /\ \A m \in Range(seen) :
                   /\ Occurrences(seen, m) <= Occurrences(seen, n)
                   /\ Occurrences(seen, m) = Occurrences(seen, n) =>
                          FirstSeen(seen, n) <= FirstSeen(seen, m)

\* every card of the eight-card deck has been used twice and Skeletons,
\* reported first in the first battle, is the most used card
C12_Witness ==
    /\ IsSome(UsageStats)
    /\ Get(UsageStats).mostUsedCard = Some(Card("Skeletons"))
    /\ Get(UsageStats).mostUsedCardCount = 2
    /\ CountOf(usage.cardCounts, "Archers") = 2
    /\ Get(battles)[1].team[1].cards = Some(Reversed(Deck8))

(***************************************************************************)
(* The entries of SeenNames that come from battles the self side won.      *)
(***************************************************************************)
Won(b) ==
    /\ b.team # <<>> /\ b.opponent # <<>>
    /\ Get(SelfSideRule(b.team)).crowns > b.opponent[1].crowns

RECURSIVE SeenWins(_)
SeenWins(bs) ==
    IF bs = <<>> THEN <<>>
    ELSE SeenWins(SubSeq(bs, 1, Len(bs) - 1))
         \o (IF Won(Last(bs)) THEN SelfNamesOf(Last(bs)) ELSE <<>>)

\* wins/count of card n is at most wins/count of card m, for the entries
\* seen and those of them, wins, that come from won battles
RateAtMost(seen, wins, n, m) ==
    Occurrences(wins, n) * Occurrences(seen, m)
        <= Occurrences(wins, m) * Occurrences(seen, n)

RateOf(seen, wins, n) == Frac(Occurrences(wins, n), Occurrences(seen, n))

\* the cards that meet the threshold of the best win-rate card
AtLeastFive(seen) == {n \in Range(seen) : Occurrences(seen, n) >= 5}

(***************************************************************************)
(* C13: the best win-rate card has the highest wins/count among the cards  *)
(* with count >= 5; when no card has count >= 5 it is the most used card   *)
(* with that card's own win rate; and once a qualifying battle has         *)
(* contributed a card, bestCard is not null.                               *)
(***************************************************************************)
C13_BestCard ==
    (IsSome(battles) /\ ~UsageThrew /\ SeenNames(Get(battles)) # <<>>) =>
        LET seen == SeenNames(Get(battles))
            wins == SeenWins(Get(battles))
            r == Get(UsageStats)
            n == Get(r.bestCard).name
            five == AtLeastFive(seen)
        IN  /\ IsSome(UsageStats)
            /\ IsSome(r.bestCard)
            /\ r.bestCardWinRate = RateOf(seen, wins, n)
            /\ r.bestCardCount = Occurrences(seen, n)
            /\ five # {} =>
                   /\ n \in five
                   /\ \A m \in five : RateAtMost(seen, wins, m, n)
            /\ five = {} => r.bestCard = r.mostUsedCard

\* the best card has been used five times or more, a card used less often
\* has a higher win rate and another card used five times a lower one
C13_Witness ==
    /\ IsSome(UsageStats)
    /\ IsSome(Get(UsageStats).bestCard)
    /\ Get(UsageStats).bestCardCount >= 5
    /\ LET seen == SeenNames(Get(battles))
           wins == SeenWins(Get(battles))
           n == Get(Get(UsageStats).bestCard).name
       IN  /\ \E m \in Range(seen) \ AtLeastFive(seen) : ~RateAtMost(seen, wins, m, n)
           /\ \E m \in AtLeastFive(seen) : ~RateAtMost(seen, wins, n, m)

(***************************************************************************)
(* C14 as stated: a card used in exactly 4 battles with 1 win is never     *)
(* reported as bestCard.                                                   *)
(***************************************************************************)
FourWithOneWin(seen, wins) ==
    {n \in Range(seen) : Occurrences(seen, n) = 4 /\ Occurrences(wins, n) = 1}

C14_NeverBestCard ==
    (IsSome(battles) /\ IsSome(UsageStats)) =>
        \A n \in FourWithOneWin(SeenNames(Get(battles)), SeenWins(Get(battles))) :
            Get(UsageStats).bestCard # None => Get(Get(UsageStats).bestCard).name # n

(***************************************************************************)
(* C14 amended: a card used in exactly 4 battles with 1 win is not taken   *)
(* by the win-rate selection: it is not bestCard while some card has       *)
(* count >= 5, whatever its win rate.  It is bestCard only through the     *)
(* fallback, when no card has count >= 5 and it is the most used card.  It *)
(* is in the most used ranking: it is mostUsedCard when no card has a      *)
(* higher count and none with the same count was seen before it.           *)
(***************************************************************************)
C14_BelowMinimumOnlyByFallback ==
    (IsSome(battles) /\ IsSome(UsageStats)) =>
        LET seen == SeenNames(Get(battles))
            wins == SeenWins(Get(battles))
            r == Get(UsageStats)
            five == AtLeastFive(seen)
        IN  \A n \in FourWithOneWin(seen, wins) :
                /\ five # {} => Get(r.bestCard).name # n
                /\ Get(r.bestCard).name = n =>
                       five = {} /\ Get(r.mostUsedCard).name = n
                /\ (\A m \in Range(seen) :
                        \/ Occurrences(seen, m) < 4
                        \/ Occurrences(seen, m) = 4 /\ FirstSeen(seen, n) <= FirstSeen(seen, m))
                   => Get(r.mostUsedCard).name = n

\* a card used 4 times with 1 win has a higher win rate than the best card,
\* which has been used 5 times
C14_Witness ==
    /\ IsSome(UsageStats)
    /\ Get(UsageStats).bestCardCount = 5
    /\ LET seen == SeenNames(Get(battles))
           wins == SeenWins(Get(battles))
           best == Get(Get(UsageStats).bestCard).name
       IN  \E n \in FourWithOneWin(seen, wins) :
               best # n /\ ~RateAtMost(seen, wins, n, best)

(***************************************************************************)
(* (count, wins) of bucket a is lexicographically below that of bucket b;  *)
(* the bucket of a table, kept in creation order, that is reported: one    *)
(* that no bucket exceeds, the earliest created of those.                  *)
(***************************************************************************)
LexBelow(a, b) == a.count < b.count \/ (a.count = b.count /\ a.wins < b.wins)

Dominant(table) ==
    CHOOSE i \in DOMAIN table :
        /\ \A j \in DOMAIN table : ~LexBelow(table[i], table[j])
        /\ \A j \in 1..(i - 1) : LexBelow(table[j], table[i])

(***************************************************************************)
(* C15: the most used deck is the DeckKey bucket with the lexicographically *)
(* greatest (count, wins), the earliest created among exact ties; its      *)
(* reported variant is the VariantKey bucket chosen within it by the same  *)
(* rule, and the reported cards are the display cards stored with that     *)
(* variant.                                                                *)
(***************************************************************************)
C15_MostUsedDeck ==
    (IsSome(UsageStats) /\ ~UsageThrew /\ usage.deckCounts # <<>>) =>
        LET r == Get(UsageStats)
            deck == usage.deckCounts[Dominant(usage.deckCounts)]
            variant == deck.variants[Dominant(deck.variants)]
        IN  /\ r.mostUsedDeckCount = deck.count
            /\ r.mostUsedDeckWins = deck.wins
            /\ r.mostUsedDeck = Some(variant.cards)
            /\ Names(variant.cards) = deck.key

\* two buckets with the same count and wins: the one created first is
\* reported, with the second of its two equally used variants, which has
\* the win
C15_Witness ==
    /\ IsSome(UsageStats)
    /\ Len(usage.deckCounts) = 2
    /\ ~LexBelow(usage.deckCounts[1], usage.deckCounts[2])
    /\ ~LexBelow(usage.deckCounts[2], usage.deckCounts[1])
    /\ Len(usage.deckCounts[1].variants) = 2
    /\ usage.deckCounts[1].variants[1].count = usage.deckCounts[1].variants[2].count
    /\ usage.deckCounts[1].variants[1].wins < usage.deckCounts[1].variants[2].wins
    /\ Get(UsageStats).mostUsedDeck = Some(usage.deckCounts[1].variants[2].cards)
    /\ Get(UsageStats).mostUsedDeck # Some(usage.deckCounts[1].variants[1].cards)

(***************************************************************************)
(* The canonical DeckKey of reported names: the distinct names, the eight  *)
(* smallest of them when there are more, in ascending order.               *)
(***************************************************************************)
CanonicalKey(names) == Names(Ascending(SmallestNames(Range(names), 8)))

\* the positions in the list of the qualifying battles with that DeckKey
BattlesWithKey(bs, key) ==
    {i \in DOMAIN bs : SelfNamesOf(bs[i]) # <<>> /\ CanonicalKey(SelfNamesOf(bs[i])) = key}

(***************************************************************************)
(* C16: mostUsedDeckCount is the number of qualifying battles whose        *)
(* canonical DeckKey is that of the reported deck, and mostUsedDeckWins    *)
(* the number of those battles that were won.                              *)
(***************************************************************************)
C16_DeckCountAndWins ==
    (IsSome(battles) /\ ~UsageThrew /\ IsSome(UsageStats)
     /\ IsSome(Get(UsageStats).mostUsedDeck)) =>
        LET bs == Get(battles)
            r == Get(UsageStats)
            with == BattlesWithKey(bs, Names(Get(r.mostUsedDeck)))
        IN  /\ r.mostUsedDeckCount = Cardinality(with)
            /\ r.mostUsedDeckWins = Cardinality({i \in with : Won(bs[i])})

\* two battles with the same eight cards in different orders, one won 3-1
\* and one lost 1-2: count 2, wins 1
C16_Witness ==
    /\ IsSome(battles) /\ Len(Get(battles)) = 2
    /\ Get(battles)[1].team[1].crowns = 3 /\ Get(battles)[1].opponent[1].crowns = 1
    /\ Get(battles)[2].team[1].crowns = 1 /\ Get(battles)[2].opponent[1].crowns = 2
    /\ Get(battles)[1].team[1].cards # Get(battles)[2].team[1].cards
    /\ IsSome(UsageStats)
    /\ Names(Get(Get(UsageStats).mostUsedDeck)) = Names(Deck8)
    /\ Get(UsageStats).mostUsedDeckCount = 2
    /\ Get(UsageStats).mostUsedDeckWins = 1

(***************************************************************************)
(* The variant state of a card as the specification defines it: from the   *)
(* evolution-level field whenever the field is present, from the icon      *)
(* reference only when it is absent.                                       *)
(***************************************************************************)
VariantState(c) ==
    IF IsSome(c.evolutionLevel)
    THEN IF Get(c.evolutionLevel) = 1 THEN "Evolution"
         ELSE IF Get(c.evolutionLevel) = 2 THEN "Hero"
         ELSE "Base"
    ELSE IF IncludesEvo(c.iconUrls.medium) THEN "Evolution"
         ELSE IF IncludesHero(c.iconUrls.medium) THEN "Hero"
         ELSE "Base"

\* the tokens of the canonical cards, which are in name order
RECURSIVE VariantTokens(_)
VariantTokens(sorted) ==
    IF sorted = <<>> THEN <<>>
    ELSE LET c == Last(sorted)
             before == VariantTokens(SubSeq(sorted, 1, Len(sorted) - 1))
         IN  IF VariantState(c) = "Evolution" THEN Append(before, c.name \o ":EVO")
             ELSE IF VariantState(c) = "Hero" THEN Append(before, c.name \o ":HERO")
             ELSE before

(***************************************************************************)
(* C17 as stated: the variant state of each canonical card comes from the  *)
(* evolution-level field whenever the field is present (1 Evolution,       *)
(* 2 Hero, any other present value Base) and from the icon reference only  *)
(* when it is absent; the VariantKey is the sorted join of the name:EVO    *)
(* and name:HERO tokens, and "BASE" exactly when there is no token.        *)
(***************************************************************************)
C17_VariantFromLevelField ==
    IsSome(variantKey) =>
        LET tokens == VariantTokens(SortedCards(shuffled))
        IN  Get(variantKey) = IF tokens = <<>> THEN <<"BASE">> ELSE tokens

(***************************************************************************)
(* The elixir table as a lookup: whether a name has a cost entry, and the  *)
(* cost.                                                                   *)
(***************************************************************************)
HasCost(name) ==
    \E i \in DOMAIN CardData : CardData[i].name = name /\ CardData[i].elixir # <<>>

CostOf(name) ==
    CardData[CHOOSE i \in DOMAIN CardData :
                 CardData[i].name = name /\ CardData[i].elixir # <<>>].elixir[1]

(***************************************************************************)
(* C18: the deck elixir average is the sum of the costs of the reported    *)
(* deck's cards that have a cost entry over the number of those cards;     *)
(* a card without an entry adds to neither, and the average is 0 when no   *)
(* card of the deck has an entry.                                          *)
(***************************************************************************)
C18_ElixirAverage ==
    (IsSome(UsageStats) /\ ~UsageThrew /\ IsSome(Get(UsageStats).mostUsedDeck)) =>
        LET deck == Get(Get(UsageStats).mostUsedDeck)
            priced == {i \in DOMAIN deck : HasCost(deck[i].name)}
            total == Sum([i \in DOMAIN deck |->
                             IF i \in priced THEN CostOf(deck[i].name) ELSE 0])
        IN  Get(UsageStats).deckElixirAvg =
                IF priced = {} THEN Frac(0, 1) ELSE Frac(total, Cardinality(priced))

\* the eight-card deck is reported: two of its cards have a cost, 5 and 3,
\* one is in the table without a cost and five are not in the table
C18_Witness ==
    /\ IsSome(UsageStats)
    /\ IsSome(Get(UsageStats).mostUsedDeck)
    /\ Len(Get(Get(UsageStats).mostUsedDeck)) = 8
    /\ Get(UsageStats).deckElixirAvg = Frac(8, 2)

(***************************************************************************)
(* The card names the opposing side reported, in battle order: one element *)
(* for every card entry of every battle the matchup loop counted; and      *)
(* those of them that come from battles the self side won.                 *)
(***************************************************************************)
OppNamesOf(b) ==
    IF /\ QualifyingType(b) /\ b.team # <<>> /\ b.opponent # <<>>
       /\ IsSome(b.opponent[1].cards)
    THEN Names(Get(b.opponent[1].cards))
    ELSE <<>>

RECURSIVE FacedNames(_)
FacedNames(bs) ==
    IF bs = <<>> THEN <<>>
    ELSE FacedNames(SubSeq(bs, 1, Len(bs) - 1)) \o OppNamesOf(Last(bs))

RECURSIVE FacedWins(_)
FacedWins(bs) ==
    IF bs = <<>> THEN <<>>
    ELSE FacedWins(SubSeq(bs, 1, Len(bs) - 1))
         \o (IF Won(Last(bs)) THEN OppNamesOf(Last(bs)) ELSE <<>>)

ListedNames(list) == {list[i].name : i \in DOMAIN list}

C21_Bucketed ==
    (/\ Feeding /\ QualifyingType(Fed) /\ matchup.status = "ok"
     /\ Fed.team # <<>> /\ Fed.opponent # <<>> /\ IsSome(Fed.opponent[1].cards)) =>
        LET self == Get(SelfSideRule(Fed.team)).startingTrophies
            opp == Fed.opponent[1].startingTrophies
            toHigher == matchup'.higher.faced - matchup.higher.faced
            toLower == matchup'.lower.faced - matchup.lower.faced
        IN  IF IsSome(self) /\ IsSome(opp)
            THEN /\ Get(opp) > Get(self) => toHigher = 1 /\ toLower = 0
                 /\ Get(opp) < Get(self) => toHigher = 0 /\ toLower = 1
                 /\ Get(opp) = Get(self) => toHigher = 0 /\ toLower = 0
            ELSE toHigher = 0 /\ toLower = 0

C21_TrophyBuckets == [][C21_Bucketed]_vars

(***************************************************************************)
(* C22 as stated: no rate divides by zero.  The trophy-gap win rates, the  *)
(* deck elixir average, the crown ratio, the tower usage percentage and    *)
(* the best-card win rate are each computed over a non-zero denominator,   *)
(* and a bucket, deck or crown total with no sample reports 0.             *)
(***************************************************************************)
Divides(f) == f.den # 0

C22_WitnessNoCrowns ==
    /\ IsSome(SummaryStats) /\ summary.total = 0
    /\ summary.crownsWon + summary.crownsLost = 0

(***************************************************************************)
(* The significance engine that fills z_score and significant of a matrix  *)
(* row.  The heatmap only declares and reads the two fields (interface     *)
(* MatchupData); the computation is the one-sample proportion test of the  *)
(* specification, section 4.6: z = (p - 0.5) / sqrt(0.25 / n) with         *)
(* p = wins / n, that is z = (2 * wins - n) / sqrt(n).  z is kept exactly, *)
(* as its sign and its square (2 * wins - n)^2 / n.                        *)
(***************************************************************************)
MaxSamples == 20

Sign(x) == IF x > 0 THEN 1 ELSE IF x < 0 THEN -1 ELSE 0

ZScore(wins, n) ==
    [sign |-> Sign(2 * wins - n),
     square |-> Frac((2 * wins - n) * (2 * wins - n), n)]

\* the threshold 1.96
ZThreshold == Frac(196, 100)

\* |z| > 1.96, compared on the squares
SignificantAlways(z) == z.square.num >= 0
Significant(z) ==
    z.square.num * ZThreshold.den * ZThreshold.den
        > ZThreshold.num * ZThreshold.num * z.square.den

SignificanceRow(wins, n) ==
    [win_rate |-> Frac(wins, n),
     total |-> n,
     z_score |-> ZScore(wins, n),
     significant |-> Significant(ZScore(wins, n))]

InitSignificance ==
    /\ sample \in {Some([wins |-> w, total |-> n]) : w \in 0..MaxSamples, n \in 1..MaxSamples}
    /\ Get(sample).wins <= Get(sample).total
    /\ row = None
    /\ IdleCanon
    /\ IdleArch
    /\ IdleAgg
    /\ IdleHeat

Evaluate ==
    /\ IsSome(sample)
    /\ row = None
    /\ row' = Some(SignificanceRow(Get(sample).wins, Get(sample).total))
    /\ UNCHANGED <<sample, canonVars, archVars, aggVars, heatVars>>

NextSignificance == Evaluate

SpecSignificance == InitSignificance /\ [][NextSignificance]_vars

(***************************************************************************)
(* C23 as stated: a row whose win rate is exactly 0.5 has z = 0 and is not *)
(* significant, for every sample size n >= 1; and a row is flagged         *)
(* significant only when |z| > 1.96, that is when                          *)
(* (2 * wins - n)^2 / n > 3.8416.                                          *)
(***************************************************************************)
C23_HalfIsNeverSignificant ==
    IsSome(row) =>
        LET wins == Get(sample).wins
            n == Get(sample).total
            r == Get(row)
        IN  /\ 2 * wins = n =>
                   /\ r.z_score.sign = 0 /\ r.z_score.square.num = 0
                   /\ ~r.significant
            /\ r.significant =>
                   (2 * wins - n) * (2 * wins - n) * 10000 > 38416 * n

\* Ten wins in twenty games: the largest sample with a win rate of 0.5.
C23_Witness ==
    /\ IsSome(row)
    /\ Get(sample) = [wins |-> 10, total |-> 20]
    /\ ~Get(row).significant

\* Fifteen wins in twenty games are significant (z^2 = 5), fourteen are not
\* (z^2 = 3.2).
C23_SignificantReached ==
    /\ IsSome(row) /\ Get(sample) = [wins |-> 15, total |-> 20] /\ Get(row).significant

(***************************************************************************)
(* ArchetypeMatchupHeatmap.  Archetype labels are numbered; a row is a     *)
(* MatchupData record without the z_score field, which only the tooltip    *)
(* reads.  win_rate is a percentage.                                       *)
(***************************************************************************)
MatchupData(subject, against, rate, games, flag) ==
    [archetype |-> subject, opponent |-> against, win_rate |-> rate,
     total |-> games, significant |-> flag]

\* sourceData.map(d => d.archetype) through new Set(...): the distinct
\* archetypes in order of first appearance
RECURSIVE Archetypes(_)
Archetypes(rows) ==
    IF rows = <<>> THEN <<>>
    ELSE LET before == Archetypes(SubSeq(rows, 1, Len(rows) - 1))
             a == rows[Len(rows)].archetype
         IN  IF \E i \in DOMAIN before : before[i] = a THEN before
             ELSE Append(before, a)

\* popularity[d.archetype] += d.total over sourceData
RECURSIVE Popularity(_, _)
Popularity(rows, a) ==
    IF rows = <<>> THEN 0
    ELSE Popularity(SubSeq(rows, 1, Len(rows) - 1), a)
         + (IF rows[Len(rows)].archetype = a THEN rows[Len(rows)].total ELSE 0)

\* archetypes.sort((a, b) => (popularity[b] || 0) - (popularity[a] || 0)):
\* a stable sort, most popular first
RECURSIVE InsertPopular(_, _, _)
InsertPopular(sorted, a, rows) ==
    IF sorted = <<>> THEN <<a>>
    ELSE IF Popularity(rows, a) > Popularity(rows, sorted[Len(sorted)])
         THEN Append(InsertPopular(SubSeq(sorted, 1, Len(sorted) - 1), a, rows),
                     sorted[Len(sorted)])
         ELSE Append(sorted, a)

RECURSIVE SortPopular(_, _)
SortPopular(archetypes, rows) ==
    IF archetypes = <<>> THEN <<>>
    ELSE InsertPopular(SortPopular(SubSeq(archetypes, 1, Len(archetypes) - 1), rows),
                       archetypes[Len(archetypes)], rows)

\* sortedArchetypes.slice(0, 15)
TopArchetypes == 15

\* sortedArchetypes.includes(x)
InDomain(domain, x) == \E i \in DOMAIN domain : domain[i] = x

processDataCapAlways(mode, specific, generic) ==
    LET sourceData == IF mode = "specific" THEN specific ELSE generic
        domain == Slice(SortPopular(Archetypes(sourceData), sourceData), TopArchetypes)
    IN  [domain |-> domain,
         data |-> SelectSeq(sourceData, LAMBDA d : InDomain(domain, d.archetype)
                                                   /\ InDomain(domain, d.opponent))]
processData(mode, specific, generic) ==
    LET sourceData == IF mode = "specific" THEN specific ELSE generic
        sortedArchetypes == SortPopular(Archetypes(sourceData), sourceData)
        domain == IF mode = "specific" THEN Slice(sortedArchetypes, TopArchetypes)
                  ELSE sortedArchetypes
    IN  [domain |-> domain,
         data |-> SelectSeq(sourceData, LAMBDA d : InDomain(domain, d.archetype)
                                                   /\ InDomain(domain, d.opponent))]

\* getColor of the heatmap with the two views
getColorByRate(entry) ==
    IF entry.win_rate < 45 THEN "#ef4444"
    ELSE IF entry.win_rate > 55 THEN "#22c55e"
    ELSE "#6b7280"
getColor(entry) ==
    IF ~entry.significant THEN "#262626"
    ELSE IF entry.win_rate < 45 THEN "#ef4444"
    ELSE IF entry.win_rate > 55 THEN "#22c55e"
    ELSE "#6b7280"

\* getColor of the single-view heatmap (components/meta)
getColorMeta(entry) ==
    IF ~entry.significant THEN "#ffffffff"
    ELSE IF entry.win_rate < 45 THEN "#ef4444"
    ELSE IF entry.win_rate > 55 THEN "#22c55e"
    ELSE "#6b7280"

\* One render: the domain and rows of processData and the fill of every Cell.
\* meta is what the single-view heatmap plots when given the specific rows:
\* every row of its data prop.
Render(mode, specific, generic) ==
    LET p == processData(mode, specific, generic)
    IN  [domain |-> p.domain,
         data |-> p.data,
         fill |-> [i \in DOMAIN p.data |-> getColor(p.data[i])],
         meta |-> [i \in DOMAIN specific |-> getColorMeta(specific[i])]]

MaxArchetypes == 17
MaxClicks == 2

WinRates == <<0, 44, 45, 50, 55, 56, 100>>

\* Rows of n subject archetypes, two rows each: against itself, and against
\* the next archetype ("ring") or against an archetype that is never a
\* subject ("outsider").
HeatRows(n, totals, opponents, flags) ==
    [i \in 1..(2 * n) |->
        LET a == (i + 1) \div 2
            second == i % 2 = 0
        IN  MatchupData(a,
                        IF ~second THEN a
                        ELSE IF opponents = "ring" THEN (a % n) + 1 ELSE 0,
                        WinRates[((a + i) % Len(WinRates)) + 1],
                        IF totals = "ascending" THEN a
                        ELSE IF totals = "descending" THEN n + 1 - a
                        ELSE 10,
                        IF flags = "all" THEN TRUE
                        ELSE IF flags = "none" THEN FALSE
                        ELSE a % 2 = 1)]

InitHeatmap ==
    /\ specificData \in {HeatRows(n, t, o, f) :
                            n \in 0..MaxArchetypes,
                            t \in {"ascending", "descending", "equal"},
                            o \in {"ring", "outsider"},
                            f \in {"all", "none", "alternate"}}
    /\ genericData \in {HeatRows(n, "ascending", "ring", "alternate") :
                            n \in {0, 3, MaxArchetypes}}
    /\ viewMode = Some("specific")
    /\ clicks = <<>>
    /\ rendered = Some(Render("specific", specificData, genericData))
    /\ IdleCanon
    /\ IdleArch
    /\ IdleAgg
    /\ IdleSig

\* onClick={() => setViewMode('specific')}
ClickDetailed ==
    /\ IsSome(viewMode)
    /\ Len(clicks) < MaxClicks
    /\ viewMode' = Some("specific")
    /\ clicks' = Append(clicks, "specific")
    /\ rendered' = Some(Render("specific", specificData, genericData))
    /\ UNCHANGED <<specificData, genericData, canonVars, archVars, aggVars, sigVars>>

\* onClick={() => setViewMode('generic')}
ClickGeneric ==
    /\ IsSome(viewMode)
    /\ Len(clicks) < MaxClicks
    /\ viewMode' = Some("generic")
    /\ clicks' = Append(clicks, "generic")
    /\ rendered' = Some(Render("generic", specificData, genericData))
    /\ UNCHANGED <<specificData, genericData, canonVars, archVars, aggVars, sigVars>>

NextHeatmap == ClickDetailed \/ ClickGeneric

SpecHeatmap == InitHeatmap /\ [][NextHeatmap]_vars

(***************************************************************************)
(* C24 as stated: the significance flag alone decides between the neutral  *)
(* colour and a win-rate colour.  Every plotted row that is not            *)
(* significant gets one and the same colour whatever its win rate; every   *)
(* significant row gets red below 45, green above 55 and gray between, and *)
(* that colour differs from the colour of the rows that are not            *)
(* significant.  Both heatmaps are checked.                                *)
(***************************************************************************)
RateColour(win_rate) ==
    IF win_rate < 45 THEN "#ef4444" ELSE IF win_rate > 55 THEN "#22c55e" ELSE "#6b7280"

ColouredBySignificance(rows, fill) ==
    \A i \in DOMAIN rows :
        IF rows[i].significant
        THEN /\ fill[i] = RateColour(rows[i].win_rate)
             /\ \A j \in DOMAIN rows : ~rows[j].significant => fill[j] # fill[i]
        ELSE \A j \in DOMAIN rows : ~rows[j].significant => fill[j] = fill[i]

C24_SignificanceDecidesColour ==
    IsSome(rendered) =>
        /\ ColouredBySignificance(Get(rendered).data, Get(rendered).fill)
        /\ ColouredBySignificance(specificData, Get(rendered).meta)

\* Plotted in the generic view: rows that are not significant with win rates
\* below 45 and above 55, and significant rows of each of the three colours.
C24_Witness ==
    /\ IsSome(rendered) /\ clicks = <<"generic">>
    /\ LET d == Get(rendered).data
           f == Get(rendered).fill
       IN  /\ \E i \in DOMAIN d : ~d[i].significant /\ d[i].win_rate < 45
           /\ \E i \in DOMAIN d : ~d[i].significant /\ d[i].win_rate > 55
           /\ \A c \in {"#ef4444", "#22c55e", "#6b7280"} :
                  \E i \in DOMAIN d : d[i].significant /\ f[i] = c

(***************************************************************************)
(* C30 as stated: the heatmap starts in the 'specific' view and its view   *)
(* changes only when a view button is clicked.  In the specific view the   *)
(* domain is the at most 15 subject archetypes with the largest summed     *)
(* game totals; in the generic view it is every subject archetype.  In     *)
(* both views the plotted rows are exactly the source rows whose archetype *)
(* and opponent both belong to the domain.                                 *)
(***************************************************************************)
Subjects(rows) == {rows[i].archetype : i \in DOMAIN rows}

RECURSIVE GamesOf(_, _)
GamesOf(rows, a) ==
    IF rows = <<>> THEN 0
    ELSE (IF Head(rows).archetype = a THEN Head(rows).total ELSE 0)
         + GamesOf(Tail(rows), a)

Smaller(a, b) == IF a < b THEN a ELSE b

C30_ViewsAndDomain ==
    IsSome(viewMode) =>
        LET mode == Get(viewMode)
            source == IF mode = "specific" THEN specificData ELSE genericData
            domain == Range(Get(rendered).domain)
        IN  /\ mode = IF clicks = <<>> THEN "specific" ELSE clicks[Len(clicks)]
            /\ Cardinality(domain) = Len(Get(rendered).domain)
            /\ domain \subseteq Subjects(source)
            /\ mode = "specific" =>
                   /\ Cardinality(domain) = Smaller(15, Cardinality(Subjects(source)))
                   /\ \A a \in domain : \A b \in Subjects(source) \ domain :
                          GamesOf(source, a) >= GamesOf(source, b)
            /\ mode = "generic" => domain = Subjects(source)
            /\ Get(rendered).data =
                   SelectSeq(source, LAMBDA d : d.archetype \in domain
                                                 /\ d.opponent \in domain)

\* Back in the specific view after a visit to the generic one, with more
\* than 15 subject archetypes: 15 are kept, the first ones reported are among
\* those left out, and rows are dropped.
C30_Witness ==
    /\ clicks = <<"generic", "specific">>
    /\ Cardinality(Subjects(specificData)) > 15
    /\ Len(Get(rendered).domain) = 15
    /\ ~InDomain(Get(rendered).domain, 1)
    /\ Len(Get(rendered).data) < Len(specificData)
    /\ Get(rendered).data # <<>>

\* The generic view with more than 15 subject archetypes plots them all.
C30_WitnessGeneric ==
    /\ IsSome(viewMode) /\ Get(viewMode) = "generic"
    /\ Len(Get(rendered).domain) > 15

(***************************************************************************)
(* C25 as stated: no aggregation changes what it is given.  After a call   *)
(* the battle list holds the same battles in the same order, every team    *)
(* and opponent array and every card array the same elements in the same   *)
(* order; and a second call on the list gives the same result.             *)
(***************************************************************************)
RECURSIVE SecondUsage(_)
SecondUsage(bs) ==
    IF bs = <<>> THEN UsageInit
    ELSE UsageStep(SecondUsage(SubSeq(bs, 1, Len(bs) - 1)), bs[Len(bs)])

RECURSIVE SecondMatchup(_)
SecondMatchup(bs) ==
    IF bs = <<>> THEN MatchupInit
    ELSE MatchupStep(SecondMatchup(SubSeq(bs, 1, Len(bs) - 1)), bs[Len(bs)])

RECURSIVE SecondSummary(_)
SecondSummary(bs) ==
    IF bs = <<>> THEN SummaryInit
    ELSE SummaryStep(SecondSummary(SubSeq(bs, 1, Len(bs) - 1)), bs[Len(bs)])

C25_Frame ==
    (Feeding /\ IsSome(battles)) =>
        /\ Len(Get(battles')) = Len(Get(battles)) + 1
        /\ SubSeq(Get(battles'), 1, Len(Get(battles))) = Get(battles)
        /\ Fed \in BattleInputs
        /\ usage' = SecondUsage(Get(battles'))
        /\ matchup' = SecondMatchup(Get(battles'))
        /\ summary' = SecondSummary(Get(battles'))

C25_InputsUntouched == [][C25_Frame]_vars

\* Reached: a list on whose copies the calls did reorder something.  Two
\* ladder battles carry a trophy change, so reverse() reordered the filtered
\* copy; a self deck and an opposing deck were reported out of name order, so
\* both sorts reordered their copies.
C25_Witness ==
    /\ IsSome(battles) /\ Len(Get(battles)) = MaxBattles
    /\ ~UsageThrew /\ ~MatchupThrew /\ ~SummaryThrew
    /\ LET h == TrophyHeap(Get(battles))
       IN  Len(h) = 3 /\ Len(h[3]) >= 2 /\ h[3] # SelectSeq(h[2], IsTiltBattle)
    /\ \E i \in DOMAIN Get(battles) :
           LET b == Get(battles)[i]
           IN  /\ IsValidType(b) /\ b.team # <<>> /\ b.opponent # <<>>
               /\ IsSome(b.team[1].cards) /\ IsSome(b.opponent[1].cards)
               /\ DeckHeap(Get(b.team[1].cards))[2] # Get(b.team[1].cards)
               /\ OpponentKeyHeap(Get(b.opponent[1].cards))[2]
                      # Names(Get(b.opponent[1].cards))
    /\ TrophyData(Get(battles)) =
           Some(<<[index |-> 1, change |-> -28, cumulative |-> -28, result |-> "Loss"],
                  [index |-> 2, change |-> 30, cumulative |-> 2, result |-> "Win"]>>)

(***************************************************************************)
(* C26 as stated: in every DeckKey bucket of the usage aggregation the     *)
(* counts of its variants sum to the bucket's count, the wins of its       *)
(* variants sum to the bucket's wins, and the display cards stored with    *)
(* every variant have exactly the names of the DeckKey.                    *)
(***************************************************************************)
C26_VariantsPartitionBucket ==
    \A i \in DOMAIN usage.deckCounts :
        LET bucket == usage.deckCounts[i]
        IN  /\ SumCount(bucket.variants) = bucket.count
            /\ SumWins(bucket.variants) = bucket.wins
            /\ \A v \in DOMAIN bucket.variants :
                   Names(bucket.variants[v].cards) = bucket.key

\* A bucket played in two variants, one of them more than once, with a win.
C26_Witness ==
    \E i \in DOMAIN usage.deckCounts :
        LET bucket == usage.deckCounts[i]
        IN  /\ Len(bucket.variants) = 2
            /\ bucket.count >= 3
            /\ bucket.wins >= 1
            /\ bucket.variants[1].count >= 2

(***************************************************************************)
(* C27 as stated: in the matchup statistics the faced counts of all        *)
(* archetype labels, "Unknown" included, sum to totalBattles; the faced    *)
(* counts of all opposing-deck buckets sum to totalBattles; the wins of    *)
(* each sum to the number of counted battles that are wins; and            *)
(* higher.faced + lower.faced <= totalBattles.                             *)
(***************************************************************************)
MatchupCounted(b) == QualifyingType(b) /\ b.team # <<>> /\ b.opponent # <<>>

CountedWins(bs) ==
    Cardinality({i \in DOMAIN bs : MatchupCounted(bs[i]) /\ Won(bs[i])})

C27_MatchupTotals ==
    (IsSome(battles) /\ ~MatchupThrew) =>
        /\ SumFaced(matchup.archetypeStats) = matchup.totalBattles
        /\ SumFaced(matchup.deckStats) = matchup.totalBattles
        /\ SumWins(matchup.archetypeStats) = CountedWins(Get(battles))
        /\ SumWins(matchup.deckStats) = CountedWins(Get(battles))
        /\ matchup.higher.faced + matchup.lower.faced <= matchup.totalBattles

\* Three counted battles, one of them against a deck labelled "Unknown", one
\* a win, and only one with trophies on both sides.
C27_Witness ==
    /\ ~MatchupThrew
    /\ matchup.totalBattles = 3
    /\ \E i \in DOMAIN matchup.archetypeStats :
           matchup.archetypeStats[i].name = "Unknown"
    /\ Len(matchup.archetypeStats) >= 2
    /\ SumWins(matchup.deckStats) = 1
    /\ matchup.higher.faced + matchup.lower.faced = 1

SelfCrowns(b) == Get(SelfSideRule(b.team)).crowns
OppCrowns(b) == b.opponent[1].crowns

C29_Summary ==
    (IsSome(battles) /\ ~SummaryThrew) =>
        LET bs == Get(battles)
            counted == {i \in DOMAIN bs : bs[i].gameMode # "ClanWar_BoatBattle"}
            draws == {i \in counted : SelfCrowns(bs[i]) = OppCrowns(bs[i])}
        IN  /\ summary.total = Cardinality(counted)
            /\ summary.wins + summary.losses <= summary.total
            /\ (summary.wins + summary.losses = summary.total) <=> (draws = {})
            /\ summary.wins =
                   Cardinality({i \in counted : SelfCrowns(bs[i]) > OppCrowns(bs[i])})
            /\ summary.losses =
                   Cardinality({i \in counted : SelfCrowns(bs[i]) < OppCrowns(bs[i])})
            /\ summary.crownsWon =
                   Sum([i \in DOMAIN bs |-> IF i \in counted THEN SelfCrowns(bs[i]) ELSE 0])
            /\ summary.crownsLost =
                   Sum([i \in DOMAIN bs |-> IF i \in counted THEN OppCrowns(bs[i]) ELSE 0])

\* A win, then a boat battle, then a draw: two battles counted, one decided.
C29_Witness ==
    /\ IsSome(battles) /\ ~SummaryThrew /\ Len(Get(battles)) = 3
    /\ Get(battles)[2].gameMode = "ClanWar_BoatBattle"
    /\ summary.total = 2 /\ summary.wins = 1 /\ summary.losses = 0
    /\ summary.crownsLost = 2

====
